---- MODULE Spec2Model ----
(***************************************************************************)
(* CyBot: the complaint slot-filling state machine (utils/complaint/       *)
(* state.py), the turn dispatch and the filing / retrieval handlers        *)
(* (main.py), the extractors (intent.py, handler.py) and the field         *)
(* validators (main.py).  Texts are strings; the regular expressions of    *)
(* the source are kept as data and run by a backtracking matcher with      *)
(* Python's priorities (leftmost start, greedy repetition, ordered         *)
(* alternation).                                                           *)
(***************************************************************************)
EXTENDS Integers, Sequences, FiniteSets, TLC

(***************************************************************************)
(* Characters and strings                                                  *)
(***************************************************************************)
Chars(s) == [i \in 1..Len(s) |-> SubSeq(s, i, i)]
CharSet(s) == {SubSeq(s, i, i) : i \in 1..Len(s)}

LowerStr == "abcdefghijklmnopqrstuvwxyz"
UpperStr == "ABCDEFGHIJKLMNOPQRSTUVWXYZ"
LowerAZ == CharSet(LowerStr)
UpperAZ == CharSet(UpperStr)
Digit == CharSet("0123456789")
Space == {" ", "\t", "\n", "\r", "\f"}
Alpha == LowerAZ \cup UpperAZ
WordChar == Alpha \cup Digit \cup {"_"}

\* str.lower() on one character
LowerChar(c) ==
    IF c \in UpperAZ
    THEN LET k == CHOOSE i \in 1..Len(UpperStr) : SubSeq(UpperStr, i, i) = c
         IN SubSeq(LowerStr, k, k)
    ELSE c

UpperChar(c) ==
    IF c \in LowerAZ
    THEN LET k == CHOOSE i \in 1..Len(LowerStr) : SubSeq(LowerStr, i, i) = c
         IN SubSeq(UpperStr, k, k)
    ELSE c

RECURSIVE Join(_)
Join(cs) == IF cs = <<>> THEN "" ELSE Head(cs) \o Join(Tail(cs))

\* str.lower()
lower(s) == Join([i \in 1..Len(s) |-> LowerChar(SubSeq(s, i, i))])

\* str.strip(): leading and trailing whitespace removed
strip(s) ==
    LET c == Chars(s)
        keep == {i \in 1..Len(s) : c[i] \notin Space}
    IN IF keep = {} THEN ""
       ELSE LET a == CHOOSE i \in keep : \A j \in keep : i <= j
                b == CHOOSE i \in keep : \A j \in keep : j <= i
            IN SubSeq(s, a, b)

\* len(str.split()): the number of maximal runs of non-whitespace
WordCount(s) ==
    LET c == Chars(s)
    IN Cardinality({i \in 1..Len(s) :
                      c[i] \notin Space /\ (i = 1 \/ c[i - 1] \in Space)})

\* sub in s
Contains(s, sub) ==
    \E i \in 1..(Len(s) - Len(sub) + 1) : SubSeq(s, i, i + Len(sub) - 1) = sub

(***************************************************************************)
(* Regular expressions as data                                             *)
(***************************************************************************)
Set(cs) == [t |-> "set", cs |-> cs]
Cat(rs) == [t |-> "cat", rs |-> rs]
Alt(rs) == [t |-> "alt", rs |-> rs]
Rep(r, lo, hi) == [t |-> "rep", r |-> r, lo |-> lo, hi |-> hi]  \* hi < 0: no upper limit
Grp(r) == [t |-> "grp", r |-> r]                                \* capture group 1
Bol == [t |-> "bol"]                                            \* ^
Eol == [t |-> "eol"]                                            \* $
Wb == [t |-> "wb"]                                              \* \b

Opt(r) == Rep(r, 0, 1)
Star(r) == Rep(r, 0, -1)
Plus(r) == Rep(r, 1, -1)
AtLeast(r, n) == Rep(r, n, -1)
Exactly(r, n) == Rep(r, n, n)

\* re.IGNORECASE applied to a character class
IC(cs) == cs \cup {LowerChar(c) : c \in cs} \cup {UpperChar(c) : c \in cs}

\* a literal word, case-sensitive / under re.IGNORECASE
Lit(s) == Cat([i \in 1..Len(s) |-> Set({SubSeq(s, i, i)})])
LitIC(s) == Cat([i \in 1..Len(s) |-> Set(IC({SubSeq(s, i, i)}))])

(***************************************************************************)
(* The matcher: M(r, s, i, g) is the sequence, in the order a             *)
(* backtracking matcher tries them, of the ways r matches s from position *)
(* i; each is [e |-> the position after the match, g |-> group 1].        *)
(***************************************************************************)
RECURSIVE M(_, _, _, _)
RECURSIVE MCat(_, _, _, _, _)
RECURSIVE MCatAll(_, _, _, _, _)
RECURSIVE MAlt(_, _, _, _, _)
RECURSIVE MRep(_, _, _, _, _, _, _)
RECURSIVE MRepAll(_, _, _, _, _, _, _, _)

IsWordAt(s, i) == i >= 1 /\ i <= Len(s) /\ s[i] \in WordChar

M(r, s, i, g) ==
    CASE r.t = "set" ->
           IF i <= Len(s) /\ s[i] \in r.cs THEN <<[e |-> i + 1, g |-> g]>> ELSE <<>>
      [] r.t = "cat" -> MCat(r.rs, 1, s, i, g)
      [] r.t = "alt" -> MAlt(r.rs, 1, s, i, g)
      [] r.t = "rep" -> MRep(r.r, r.lo, r.hi, 0, s, i, g)
      [] r.t = "grp" ->
           LET in == M(r.r, s, i, g)
           IN [k \in 1..Len(in) |-> [e |-> in[k].e, g |-> <<i, in[k].e>>]]
      [] r.t = "bol" -> IF i = 1 THEN <<[e |-> i, g |-> g]>> ELSE <<>>
      [] r.t = "eol" ->
           IF i = Len(s) + 1 \/ (i = Len(s) /\ s[i] = "\n")
           THEN <<[e |-> i, g |-> g]>> ELSE <<>>
      [] r.t = "wb" ->
           IF IsWordAt(s, i - 1) # IsWordAt(s, i) THEN <<[e |-> i, g |-> g]>> ELSE <<>>

MCat(rs, k, s, i, g) ==
    IF k > Len(rs) THEN <<[e |-> i, g |-> g]>>
    ELSE MCatAll(M(rs[k], s, i, g), 1, rs, k + 1, s)

MCatAll(ms, n, rs, k, s) ==
    IF n > Len(ms) THEN <<>>
    ELSE MCat(rs, k, s, ms[n].e, ms[n].g) \o MCatAll(ms, n + 1, rs, k, s)

MAlt(rs, k, s, i, g) ==
    IF k > Len(rs) THEN <<>>
    ELSE M(rs[k], s, i, g) \o MAlt(rs, k + 1, s, i, g)

MRep(r, lo, hi, n, s, i, g) ==
    LET more == IF hi >= 0 /\ n >= hi THEN <<>>
                ELSE MRepAll(M(r, s, i, g), 1, r, lo, hi, n + 1, s, i)
        stop == IF n >= lo THEN <<[e |-> i, g |-> g]>> ELSE <<>>
    IN more \o stop

MRepAll(ms, k, r, lo, hi, n, s, i) ==
    IF k > Len(ms) THEN <<>>
    ELSE (IF ms[k].e > i THEN MRep(r, lo, hi, n, s, ms[k].e, ms[k].g) ELSE <<>>)
         \o MRepAll(ms, k + 1, r, lo, hi, n, s, i)

NoMatch == [ok |-> FALSE, b |-> 0, e |-> 0, g |-> <<>>]

\* re.match(r, text): anchored at the start
re_match(r, text) ==
    LET ms == M(r, Chars(text), 1, <<>>)
    IN IF ms = <<>> THEN NoMatch
       ELSE [ok |-> TRUE, b |-> 1, e |-> ms[1].e, g |-> ms[1].g]

\* re.search(r, text): the leftmost start that matches
re_search(r, text) ==
    LET s == Chars(text)
        starts == {i \in 1..(Len(s) + 1) : M(r, s, i, <<>>) # <<>>}
    IN IF starts = {} THEN NoMatch
       ELSE LET b == CHOOSE i \in starts : \A j \in starts : i <= j
                m == M(r, s, b, <<>>)[1]
            IN [ok |-> TRUE, b |-> b, e |-> m.e, g |-> m.g]

\* match.group(0), match.group(1)
group0(text, m) == SubSeq(text, m.b, m.e - 1)
group1(text, m) == SubSeq(text, m.g[1], m.g[2] - 1)

(***************************************************************************)
(* FieldValidator (main.py)                                                *)
(***************************************************************************)
EmailLocal == Alpha \cup Digit \cup CharSet("._%+-")
EmailDomain == Alpha \cup Digit \cup CharSet(".-")

\* r'^[a-zA-Z0-9._%+-]+@[a-zA-Z0-9.-]+\.[a-zA-Z]{2,}$'
ValidEmailPattern ==
    Cat(<<Bol, Plus(Set(EmailLocal)), Lit("@"), Plus(Set(EmailDomain)), Lit("."),
          AtLeast(Set(Alpha), 2), Eol>>)

validate_email(email) == re_match(ValidEmailPattern, email).ok

\* re.sub(r'[\s\-\(\)\.]', '', phone)
PhoneSeparators == Space \cup CharSet("-().")
CleanPhone(phone) ==
    LET c == Chars(phone) IN Join(SelectSeq(c, LAMBDA ch : ch \notin PhoneSeparators))

\* r'^\d{10}$' and r'^\+\d{1,3}\d{10}$'
PlainPhonePattern == Cat(<<Bol, Exactly(Set(Digit), 10), Eol>>)
CountryPhonePattern ==
    Cat(<<Bol, Lit("+"), Rep(Set(Digit), 1, 3), Exactly(Set(Digit), 10), Eol>>)

\* the validator with the plain format only
validate_phone_plain_only(phone) ==
    re_match(PlainPhonePattern, CleanPhone(phone)).ok

validate_phone(phone) ==
    LET cleaned == CleanPhone(phone)
    IN re_match(PlainPhonePattern, cleaned).ok \/ re_match(CountryPhonePattern, cleaned).ok

(***************************************************************************)
(* InfoExtractor (intent.py extract_complaint_info)                        *)
(***************************************************************************)
\* r'\b[A-Za-z0-9._%+-]+@[A-Za-z0-9.-]+\.[A-Z|a-z]{2,}\b'
email_pattern ==
    Cat(<<Wb, Plus(Set(EmailLocal)), Lit("@"), Plus(Set(EmailDomain)), Lit("."),
          AtLeast(Set(Alpha \cup {"|"}), 2), Wb>>)

\* r'\b\d{10}\b|\+\d{1,3}\s?\d{10}\b|\(\d{3}\)\s?\d{3}-\d{4}'
phone_pattern ==
    Alt(<<Cat(<<Wb, Exactly(Set(Digit), 10), Wb>>),
          Cat(<<Lit("+"), Rep(Set(Digit), 1, 3), Opt(Set(Space)),
                Exactly(Set(Digit), 10), Wb>>),
          Cat(<<Lit("("), Exactly(Set(Digit), 3), Lit(")"), Opt(Set(Space)),
                Exactly(Set(Digit), 3), Lit("-"), Exactly(Set(Digit), 4)>>)>>)

\* the dict returned: a function whose domain is the set of fields found
extract_complaint_info(text) ==
    LET email_match == re_search(email_pattern, text)
        phone_match == re_search(phone_pattern, text)
        found == (IF email_match.ok THEN {"email"} ELSE {})
                 \cup (IF phone_match.ok THEN {"phone"} ELSE {})
    IN [f \in found |-> IF f = "email" THEN group0(text, email_match)
                        ELSE group0(text, phone_match)]

(***************************************************************************)
(* ComplaintHandler.extract_complaint_id (handler.py)                      *)
(***************************************************************************)
\* Python's None where a string is expected, and where a dict is expected
None == "<None>"
NoData == <<>>
\* {}
EmptyDict == <<>>

S1 == Plus(Set(Space))      \* \s+
S0 == Star(Set(Space))      \* \s*
IdToken == AtLeast(Set(IC(UpperAZ \cup Digit)), 6)   \* [A-Z0-9]{6,}, re.IGNORECASE

id_patterns == <<
    \* r'(?:my|the)\s+complaint\s+id\s+(?:is|was|:)?\s*([A-Z0-9]{6,})'
    Cat(<<Alt(<<LitIC("my"), LitIC("the")>>), S1, LitIC("complaint"), S1, LitIC("id"), S1,
          Opt(Alt(<<LitIC("is"), LitIC("was"), Lit(":")>>)), S0, Grp(IdToken)>>),
    \* r'status\s+of\s+complaint\s+id\s*[:=]?\s*([A-Z0-9]{6,})'
    Cat(<<LitIC("status"), S1, LitIC("of"), S1, LitIC("complaint"), S1, LitIC("id"), S0,
          Opt(Set({":", "="})), S0, Grp(IdToken)>>),
    \* r'complaint\s+number\s+([A-Z0-9]{6,})'
    Cat(<<LitIC("complaint"), S1, LitIC("number"), S1, Grp(IdToken)>>),
    \* r'complaint\s+(?:id\s*[:=]?\s*)?([A-Z0-9]{6,})'
    Cat(<<LitIC("complaint"), S1,
          Opt(Cat(<<LitIC("id"), S0, Opt(Set({":", "="})), S0>>)), Grp(IdToken)>>),
    \* r'(?:id|complaint id)\s*[:=]?\s*([A-Z0-9]{6,})'
    Cat(<<Alt(<<LitIC("id"), LitIC("complaint id")>>), S0, Opt(Set({":", "="})), S0,
          Grp(IdToken)>> ) >>

\* r'^[A-Z0-9]{6,}$', re.IGNORECASE
whole_id_pattern == Cat(<<Bol, IdToken, Eol>>)
\* r'\b([A-Z0-9]{6,})\b', re.IGNORECASE
id_pattern == Cat(<<Wb, Grp(IdToken), Wb>>)

common_words == {"number", "status", "complaint", "details", "everywhere"}

\* re.findall(id_pattern, text): the non-overlapping matches, left to right
RECURSIVE FindAllFrom(_, _, _)
FindAllFrom(r, text, from) ==
    LET s == Chars(text)
        starts == {i \in from..(Len(s) + 1) : M(r, s, i, <<>>) # <<>>}
    IN IF starts = {} THEN <<>>
       ELSE LET b == CHOOSE i \in starts : \A j \in starts : i <= j
                m == M(r, s, b, <<>>)[1]
            IN <<SubSeq(text, m.g[1], m.g[2] - 1)>>
               \o FindAllFrom(r, text, IF m.e > b THEN m.e ELSE b + 1)

HasDigit(s) == \E i \in 1..Len(s) : SubSeq(s, i, i) \in Digit
HasLetter(s) == \E i \in 1..Len(s) : SubSeq(s, i, i) \in Alpha

\* the first phrase pattern, from index k on, that matches: its capture
RECURSIVE FirstPatternCapture(_, _)
FirstPatternCapture(text, k) ==
    IF k > Len(id_patterns) THEN None
    ELSE LET m == re_search(id_patterns[k], text)
         IN IF m.ok THEN group1(text, m) ELSE FirstPatternCapture(text, k + 1)

\* the first token that is no common word and has a digit and a letter
RECURSIVE FirstLikelyId(_, _)
FirstLikelyId(matches, k) ==
    IF k > Len(matches) THEN None
    ELSE IF lower(matches[k]) \in common_words THEN FirstLikelyId(matches, k + 1)
    ELSE IF ~(HasDigit(matches[k]) /\ HasLetter(matches[k])) THEN FirstLikelyId(matches, k + 1)
    ELSE matches[k]

\* the extractor that scans for a token before it tries the phrase patterns
extract_complaint_id_tokens_before_phrases(text) ==
    IF re_match(whole_id_pattern, strip(text)).ok THEN strip(text)
    ELSE LET c == FirstLikelyId(FindAllFrom(id_pattern, text, 1), 1)
         IN IF c # None THEN c ELSE FirstPatternCapture(text, 1)

extract_complaint_id(text) ==
    IF re_match(whole_id_pattern, strip(text)).ok THEN strip(text)
    ELSE LET c == FirstPatternCapture(text, 1)
         IN IF c # None THEN c
            ELSE FirstLikelyId(FindAllFrom(id_pattern, text, 1), 1)

(***************************************************************************)
(* IntentClassifier (intent.py)                                            *)
(***************************************************************************)
AComplaint(verb) == Cat(<<LitIC(verb), S1, LitIC("a"), S1, LitIC("complaint")>>)

FILING_PATTERNS == <<
    AComplaint("file"), AComplaint("submit"), AComplaint("make"),
    AComplaint("register"), AComplaint("lodge"), AComplaint("raise"),
    \* r'complain\s+about'
    Cat(<<LitIC("complain"), S1, LitIC("about")>>),
    \* r'report\s+an?\s+issue'
    Cat(<<LitIC("report"), S1, LitIC("a"), Opt(LitIC("n")), S1, LitIC("issue")>>),
    \* r'report\s+a\s+problem'
    Cat(<<LitIC("report"), S1, LitIC("a"), S1, LitIC("problem")>> ) >>

Ticket == Alt(<<LitIC("complaint"), LitIC("issue"), LitIC("ticket")>>)
OptMy == Opt(Cat(<<LitIC("my"), S1>>))

RETRIEVAL_PATTERNS == <<
    \* r'(get|show|view|check|retrieve)\s+(my\s+)?(details|status|info)?\s*(for|of|about)?\s*(complaint|issue|ticket)'
    Cat(<<Alt(<<LitIC("get"), LitIC("show"), LitIC("view"), LitIC("check"), LitIC("retrieve")>>),
          S1, OptMy, Opt(Alt(<<LitIC("details"), LitIC("status"), LitIC("info")>>)), S0,
          Opt(Alt(<<LitIC("for"), LitIC("of"), LitIC("about")>>)), S0, Ticket>>),
    \* r'(what|where)\s+is\s+(my\s+)?(complaint|issue|ticket)'
    Cat(<<Alt(<<LitIC("what"), LitIC("where")>>), S1, LitIC("is"), S1, OptMy, Ticket>>),
    \* r'track\s+(my\s+)?(complaint|issue|ticket)'
    Cat(<<LitIC("track"), S1, OptMy, Ticket>> ) >>

\* for pattern in patterns: if re.search(pattern, text, re.IGNORECASE): return True
AnyPattern(patterns, text) == \E k \in 1..Len(patterns) : re_search(patterns[k], text).ok

FilingPatternSignal(text) == AnyPattern(FILING_PATTERNS, text)
RetrievalPatternSignal(text) == AnyPattern(RETRIEVAL_PATTERNS, text)

(***************************************************************************)
(* ConversationState (state.py).  active_complaints is a dict: a function  *)
(* whose domain is the set of session ids that have a draft.               *)
(***************************************************************************)
\* the order with phone and email exchanged
required_fields_email_first == <<"name", "email", "phone", "details">>

required_fields == <<"name", "phone", "email", "details">>

\* a test for None alone, under which '' counts as a value
NotNone(v) == v # None

\* Python truthiness of a field value: None and '' are falsy
Truthy(v) == v # None /\ v # ""

\* a fresh draft that waits for the phone number
FreshComplaintAtPhone ==
    [name |-> None, phone |-> None, email |-> None, details |-> None,
     current_field |-> "phone"]

\* a new draft without current_field
FreshComplaintWithoutCurrentField ==
    [name |-> None, phone |-> None, email |-> None, details |-> None,
     current_field |-> None]

FreshComplaint ==
    [name |-> None, phone |-> None, email |-> None, details |-> None,
     current_field |-> "name"]

DictSet(d, k, v) == [x \in DOMAIN d \cup {k} |-> IF x = k THEN v ELSE d[x]]
DictDel(d, k) == [x \in DOMAIN d \ {k} |-> d[x]]

\* a start that keeps the draft the session already has
start_complaint_filing_keeping_draft(active_complaints, session_id) ==
    IF session_id \in DOMAIN active_complaints THEN active_complaints
    ELSE DictSet(active_complaints, session_id, FreshComplaint)

start_complaint_filing(active_complaints, session_id) ==
    DictSet(active_complaints, session_id, FreshComplaint)

\* an update that also moves current_field to the field it wrote
update_complaint_data_moving_current_field(active_complaints, session_id, field, value) ==
    LET ac == IF session_id \notin DOMAIN active_complaints
              THEN start_complaint_filing(active_complaints, session_id)
              ELSE active_complaints
    IN [ac EXCEPT ![session_id][field] = value, ![session_id].current_field = field]

update_complaint_data(active_complaints, session_id, field, value) ==
    LET ac == IF session_id \notin DOMAIN active_complaints
              THEN start_complaint_filing(active_complaints, session_id)
              ELSE active_complaints
    IN [ac EXCEPT ![session_id][field] = value]

get_complaint_data(active_complaints, session_id) ==
    IF session_id \in DOMAIN active_complaints THEN active_complaints[session_id] ELSE NoData

\* the first of required_fields, from index k on, whose value is falsy
RECURSIVE FirstMissing(_, _)
FirstMissing(data, k) ==
    IF k > Len(required_fields) THEN None
    ELSE IF ~Truthy(data[required_fields[k]]) THEN required_fields[k]
    ELSE FirstMissing(data, k + 1)

\* the scan run backwards: the last of required_fields whose value is falsy
get_last_missing_field(active_complaints, session_id) ==
    IF session_id \notin DOMAIN active_complaints THEN None
    ELSE LET data == active_complaints[session_id]
             missing == {k \in 1..Len(required_fields) : ~Truthy(data[required_fields[k]])}
         IN IF missing = {} THEN None
            ELSE required_fields[CHOOSE k \in missing : \A j \in missing : j <= k]

\* a scan that takes only None for missing
get_next_field_none_only(active_complaints, session_id) ==
    IF session_id \notin DOMAIN active_complaints THEN None
    ELSE LET data == active_complaints[session_id]
             missing == {k \in 1..Len(required_fields) : data[required_fields[k]] = None}
         IN IF missing = {} THEN None
            ELSE required_fields[CHOOSE k \in missing : \A j \in missing : k <= j]

\* a scan that stops before details
get_next_field_before_details(active_complaints, session_id) ==
    IF session_id \notin DOMAIN active_complaints THEN None
    ELSE LET data == active_complaints[session_id]
             missing == {k \in 1..3 : ~Truthy(data[required_fields[k]])}
         IN IF missing = {} THEN None
            ELSE required_fields[CHOOSE k \in missing : \A j \in missing : k <= j]

get_next_field(active_complaints, session_id) ==
    IF session_id \notin DOMAIN active_complaints THEN None
    ELSE FirstMissing(active_complaints[session_id], 1)

\* a clear that empties the draft and leaves it in the store
clear_complaint_data_leaving_fresh_draft(active_complaints, session_id) ==
    IF session_id \in DOMAIN active_complaints
    THEN DictSet(active_complaints, session_id, FreshComplaint)
    ELSE active_complaints

\* a clear that deletes nothing
keep_complaint_data(active_complaints, session_id) == active_complaints

clear_complaint_data(active_complaints, session_id) ==
    IF session_id \in DOMAIN active_complaints
    THEN DictDel(active_complaints, session_id)
    ELSE active_complaints

(***************************************************************************)
(* ComplaintHandler: the two calls to the complaint API (handler.py).      *)
(* The reply of the remote service is the environment's: http is           *)
(* [raises |-> whether requests raised, text |-> str(e), json |-> body].   *)
(***************************************************************************)
\* the payload with phone and email exchanged
CreatePayloadSwapped(data) ==
    [name |-> data.name, phone_number |-> data.email, email |-> data.phone,
     complaint_details |-> data.details]

CreatePayload(data) ==
    [name |-> data.name, phone_number |-> data.phone, email |-> data.email,
     complaint_details |-> data.details]

create_complaint(data, http) ==
    [payload |-> CreatePayload(data),
     result |-> IF http.raises THEN [error |-> "API error: " \o http.text] ELSE http.json]

\* http is [raises, text, status_code, json]
get_complaint(complaint_id, http) ==
    IF http.raises THEN [error |-> "API error: " \o http.text]
    ELSE IF http.status_code = "200" THEN http.json
    ELSE IF http.status_code = "404"
         THEN [error |-> "Complaint with ID " \o complaint_id \o " not found"]
    ELSE [error |-> "Error retrieving complaint: " \o http.status_code]

DictGet(d, k, default) == IF k \in DOMAIN d THEN d[k] ELSE default

\* created_at is passed through unchanged: the replies modelled carry no
\* ISO timestamp (see LookupReplies)
format_complaint_details(complaint) ==
    "**Complaint ID**: " \o DictGet(complaint, "complaint_id", DictGet(complaint, "_id", "N/A"))
    \o "\n**Name**: " \o DictGet(complaint, "name", "N/A")
    \o "\n**Phone**: " \o DictGet(complaint, "phone_number", "N/A")
    \o "\n**Email**: " \o DictGet(complaint, "email", "N/A")
    \o "\n**Details**: " \o DictGet(complaint, "complaint_details", "N/A")
    \o "\n**Created At**: " \o DictGet(complaint, "created_at", "")

(***************************************************************************)
(* The fixed messages of main.py                                           *)
(***************************************************************************)
NamePrompt == "To file your complaint, I'll need some information. What is your name?"
PhonePrompt == "Thank you. What is your phone number? Please enter a 10-digit number without spaces or special characters."
EmailPrompt == "Got it. Please provide your email address in the format name@example.com."
DetailsPrompt == "Thanks. Now, please describe your complaint in detail."
PhoneError == "Oops! The number you entered is not a valid phone number. Please enter a 10-digit phone number (e.g., 1234567890)."
EmailError == "Oops! The email address you entered is not valid. Please enter a valid email address (e.g., name@example.com)."
DefaultMessage == "I'm processing your complaint. Could you please provide the requested information?"
NoIdMessage == "I couldn't identify a complaint ID in your message. Please provide a valid complaint ID."
RegisteredMessage(id) == "Your complaint has been registered with ID: " \o id \o ". You'll hear back from us soon."
IssueMessage(err) == "There was an issue registering your complaint: " \o err
NotFoundMessage(id) == "I couldn't find any complaint with ID: " \o id \o ". Please verify the ID and try again."

(***************************************************************************)
(* The name test of handle_complaint_filing (main.py)                      *)
(***************************************************************************)
\* words = query.strip().split()
\* 1 <= len(words) <= 3 and '@' not in query and not re.search(r'\d', query)
\* the name test with up to five words
NameHeuristicUpToFiveWords(query) ==
    /\ WordCount(strip(query)) >= 1
    /\ WordCount(strip(query)) <= 5
    /\ ~Contains(query, "@")
    /\ ~re_search(Set(Digit), query).ok

NameHeuristic(query) ==
    /\ WordCount(strip(query)) >= 1
    /\ WordCount(strip(query)) <= 3
    /\ ~Contains(query, "@")
    /\ ~re_search(Set(Digit), query).ok

(***************************************************************************)
(* The inputs of a turn: what the user types, what the query refiner       *)
(* returns, what the libraries and the remote service answer.              *)
(***************************************************************************)
Utterances ==
    {"I want to file a complaint", "Jane Doe", "1234567890",
     "my phone is 1234567890", "jane@example.com", "the printer is broken", "   ",
     "a@b.c|d file a complaint", "5551234567 file a complaint",
     "file a complaint jane@example.com 5551234567", "check complaint AB12CD34",
     "AB12CD34", "please show my complaint now", "file a complaint AB12CD34"}

RefinedQueries == {"How do I file a complaint", "What is the refund policy"}

\* what rapidfuzz scores and what the spaCy tokens show, for one utterance
LibResult(fs, rs, fk, rk) ==
    [filing_score |-> fs, retrieval_score |-> rs,
     filing_keyword_and_verb |-> fk, retrieval_keyword_and_verb |-> rk]

LibResults ==
    {LibResult(69, 69, FALSE, FALSE), LibResult(70, 69, FALSE, FALSE),
     LibResult(69, 70, FALSE, FALSE), LibResult(0, 0, TRUE, TRUE)}

NoReply == [raises |-> FALSE, text |-> "", status_code |-> "", json |-> NoData]

CreateReplies ==
    {[raises |-> FALSE, text |-> "", status_code |-> "200", json |-> [complaint_id |-> "CMP1001"]],
     [raises |-> FALSE, text |-> "", status_code |-> "200", json |-> [id |-> "77"]],
     [raises |-> FALSE, text |-> "", status_code |-> "200", json |-> [message |-> "queued"]],
     [raises |-> TRUE, text |-> "Read timed out", status_code |-> "", json |-> NoData]}

LookupReplies ==
    {[raises |-> FALSE, text |-> "", status_code |-> "200",
      json |-> [complaint_id |-> "AB12CD34", name |-> "Jane Doe", phone_number |-> "1234567890",
                email |-> "jane@example.com", complaint_details |-> "the printer is broken",
                created_at |-> "yesterday"]],
     [raises |-> FALSE, text |-> "", status_code |-> "404", json |-> NoData],
     [raises |-> FALSE, text |-> "", status_code |-> "500", json |-> NoData],
     [raises |-> TRUE, text |-> "Read timed out", status_code |-> "", json |-> NoData]}

(***************************************************************************)
(* What a turn computes from a text, tabulated over the texts a turn can  *)
(* receive so that each regular expression runs once per text: the        *)
(* handlers below take the row of the query (q) or of the text the         *)
(* classifiers read (t) where the source takes the string.                 *)
(***************************************************************************)
TextFacts(text) ==
    LET extracted_info == extract_complaint_info(text)
    IN [text |-> text,
        \* IntentRecognizer.extract_complaint_info(query)
        info |-> extracted_info,
        \* ComplaintHandler.extract_complaint_id(query)
        complaint_id |-> extract_complaint_id(text),
        \* query.strip()
        stripped |-> strip(text),
        \* the name test of line 235
        name_like |-> NameHeuristic(text),
        \* 'phone' in extracted_info and validate_phone(extracted_info['phone'])
        extracted_phone_valid |->
            "phone" \in DOMAIN extracted_info /\ validate_phone(extracted_info["phone"]),
        \* validate_phone(query.strip())
        stripped_phone_valid |-> validate_phone(strip(text)),
        \* 'email' in extracted_info and validate_email(extracted_info['email'])
        extracted_email_valid |->
            "email" \in DOMAIN extracted_info /\ validate_email(extracted_info["email"]),
        \* validate_email(query.strip())
        stripped_email_valid |-> validate_email(strip(text)),
        \* the regex signals of the two classifiers
        filing_pattern |-> FilingPatternSignal(text),
        retrieval_pattern |-> RetrievalPatternSignal(text),
        \* "complaint" in query_for_intent.lower()
        mentions_complaint |-> Contains(lower(text), "complaint")]

Texts == Utterances \cup RefinedQueries
FactTable == {TextFacts(t) : t \in Texts}
Fact(text) == CHOOSE row \in FactTable : row.text = text

(***************************************************************************)
(* is_filing_complaint, is_retrieving_complaint (intent.py)                 *)
(***************************************************************************)
\* threshold = 0.7, compared as threshold * 100
ThresholdPercent == 70

(* The fuzzy score (rapidfuzz) and the keyword-and-verb test on the spaCy  *)
(* tokens are results of libraries: lib carries them for one call.         *)
\* the classifier that reads the keyword-and-verb result without the spaCy model
is_filing_complaint_without_model_test(t, nlp_loaded, lib) ==
    \/ t.filing_pattern
    \/ lib.filing_score >= ThresholdPercent
    \/ lib.filing_keyword_and_verb

is_filing_complaint(t, nlp_loaded, lib) ==
    \/ t.filing_pattern
    \/ lib.filing_score >= ThresholdPercent
    \/ (nlp_loaded /\ lib.filing_keyword_and_verb)

is_retrieving_complaint(t, nlp_loaded, lib) ==
    \/ t.retrieval_pattern
    \/ lib.retrieval_score >= ThresholdPercent
    \/ (nlp_loaded /\ lib.retrieval_keyword_and_verb)

(***************************************************************************)
(* handle_complaint_filing (main.py).  It returns the store it leaves,     *)
(* the response, the payloads it sent to create_complaint, their result,   *)
(* and the store as its update_complaint_data calls left it (written),     *)
(* before current_field is recomputed; NoData when it wrote no field.      *)
(***************************************************************************)
\* extracted_info.items(), in the order the extractor inserts the keys
Items(info) == SelectSeq(<<"email", "phone", "name">>, LAMBDA f : f \in DOMAIN info)

\* for field, value in extracted_info.items(): state.update_complaint_data(...)
RECURSIVE UpdateAll(_, _, _, _)
UpdateAll(ac, session_id, info, fields) ==
    IF fields = <<>> THEN ac
    ELSE UpdateAll(update_complaint_data(ac, session_id, Head(fields), info[Head(fields)]),
                   session_id, info, Tail(fields))

\* the first turn of a filing: start, pre-fill, name prompt
StartFiling(ac, session_id, extracted_info) ==
    LET filled == UpdateAll(start_complaint_filing(ac, session_id), session_id,
                            extracted_info, Items(extracted_info))
    IN [ac |-> filled, response |-> NamePrompt, created |-> <<>>, result |-> NoData,
        written |-> filled]

\* the step that stores a phone or email before it rejects it
FieldStepStoringRejected(ac, session_id, q, extracted_info, current_field) ==
    LET accept(field, value) ==
            [ac |-> update_complaint_data(ac, session_id, field, value),
             input_accepted |-> TRUE, early |-> None]
        reject(message) ==
            [ac |-> IF message = None THEN ac
                    ELSE update_complaint_data(ac, session_id, current_field, q.stripped),
             input_accepted |-> FALSE, early |-> message]
    IN CASE current_field = "name" ->
              IF "name" \in DOMAIN extracted_info
              THEN accept("name", extracted_info["name"])
              ELSE IF q.name_like THEN accept("name", q.stripped)
              ELSE reject(None)
         [] current_field = "phone" ->
              IF q.extracted_phone_valid
              THEN accept("phone", extracted_info["phone"])
              ELSE IF q.stripped_phone_valid THEN accept("phone", q.stripped)
              ELSE reject(PhoneError)
         [] current_field = "email" ->
              IF q.extracted_email_valid
              THEN accept("email", extracted_info["email"])
              ELSE IF q.stripped_email_valid THEN accept("email", q.stripped)
              ELSE reject(EmailError)
         [] current_field = "details" -> accept("details", q.stripped)
         [] OTHER -> reject(None)

\* the step that first writes every extracted value into the draft, as the
\* first turn does
FieldStepMergingExtracted(ac, session_id, q, extracted_info, current_field) ==
    LET merged == UpdateAll(ac, session_id, extracted_info, Items(extracted_info))
        accept(field, value) ==
            [ac |-> update_complaint_data(merged, session_id, field, value),
             input_accepted |-> TRUE, early |-> None]
        reject(message) == [ac |-> merged, input_accepted |-> FALSE, early |-> message]
    IN CASE current_field = "name" ->
              IF "name" \in DOMAIN extracted_info
              THEN accept("name", extracted_info["name"])
              ELSE IF q.name_like THEN accept("name", q.stripped)
              ELSE reject(None)
         [] current_field = "phone" ->
              IF q.extracted_phone_valid
              THEN accept("phone", extracted_info["phone"])
              ELSE IF q.stripped_phone_valid THEN accept("phone", q.stripped)
              ELSE reject(PhoneError)
         [] current_field = "email" ->
              IF q.extracted_email_valid
              THEN accept("email", extracted_info["email"])
              ELSE IF q.stripped_email_valid THEN accept("email", q.stripped)
              ELSE reject(EmailError)
         [] current_field = "details" -> accept("details", q.stripped)
         [] OTHER -> reject(None)

\* the step that, with an accepted phone number, also stores a valid email
\* address found in the same utterance
FieldStepTakingEmailToo(ac, session_id, q, extracted_info, current_field) ==
    LET accept(field, value) ==
            [ac |-> update_complaint_data(ac, session_id, field, value),
             input_accepted |-> TRUE, early |-> None]
        accept_phone(value) ==
            [ac |-> IF q.extracted_email_valid
                    THEN update_complaint_data(update_complaint_data(ac, session_id, "phone", value),
                                               session_id, "email", extracted_info["email"])
                    ELSE update_complaint_data(ac, session_id, "phone", value),
             input_accepted |-> TRUE, early |-> None]
        reject(message) == [ac |-> ac, input_accepted |-> FALSE, early |-> message]
    IN CASE current_field = "name" ->
              IF "name" \in DOMAIN extracted_info
              THEN accept("name", extracted_info["name"])
              ELSE IF q.name_like THEN accept("name", q.stripped)
              ELSE reject(None)
         [] current_field = "phone" ->
              IF q.extracted_phone_valid
              THEN accept_phone(extracted_info["phone"])
              ELSE IF q.stripped_phone_valid THEN accept_phone(q.stripped)
              ELSE reject(PhoneError)
         [] current_field = "email" ->
              IF q.extracted_email_valid
              THEN accept("email", extracted_info["email"])
              ELSE IF q.stripped_email_valid THEN accept("email", q.stripped)
              ELSE reject(EmailError)
         [] current_field = "details" -> accept("details", q.stripped)
         [] OTHER -> reject(None)

\* lines 226-267: the step for the field being collected
FieldStep(ac, session_id, q, extracted_info, current_field) ==
    LET accept(field, value) ==
            [ac |-> update_complaint_data(ac, session_id, field, value),
             input_accepted |-> TRUE, early |-> None]
        reject(message) == [ac |-> ac, input_accepted |-> FALSE, early |-> message]
    IN CASE current_field = "name" ->
              IF "name" \in DOMAIN extracted_info
              THEN accept("name", extracted_info["name"])
              ELSE IF q.name_like THEN accept("name", q.stripped)
              ELSE reject(None)
         [] current_field = "phone" ->
              IF q.extracted_phone_valid
              THEN accept("phone", extracted_info["phone"])
              ELSE IF q.stripped_phone_valid THEN accept("phone", q.stripped)
              ELSE reject(PhoneError)
         [] current_field = "email" ->
              IF q.extracted_email_valid
              THEN accept("email", extracted_info["email"])
              ELSE IF q.stripped_email_valid THEN accept("email", q.stripped)
              ELSE reject(EmailError)
         [] current_field = "details" -> accept("details", q.stripped)
         [] OTHER -> reject(None)

\* the submission that calls create_complaint again when the first call failed
FinishRetrying(ac, session_id, next_field, http) ==
    IF next_field = None
    THEN LET call == create_complaint(get_complaint_data(ac, session_id), http)
             response == call.result
         IN [ac |-> clear_complaint_data(ac, session_id),
             response |-> IF "complaint_id" \in DOMAIN response
                          THEN RegisteredMessage(response["complaint_id"])
                          ELSE IF "id" \in DOMAIN response
                          THEN RegisteredMessage(response["id"])
                          ELSE IssueMessage(DictGet(response, "error", "Unknown error")),
             created |-> IF "error" \in DOMAIN response
                         THEN <<call.payload, call.payload>> ELSE <<call.payload>>,
             result |-> response, written |-> NoData]
    ELSE IF next_field = "name"
    THEN [ac |-> ac, response |-> NamePrompt, created |-> <<>>, result |-> NoData,
          written |-> NoData]
    ELSE [ac |-> ac, response |-> DefaultMessage, created |-> <<>>, result |-> NoData,
          written |-> NoData]

\* the submission that confirms only a result with the key complaint_id
FinishReadingComplaintIdOnly(ac, session_id, next_field, http) ==
    IF next_field = None
    THEN LET call == create_complaint(get_complaint_data(ac, session_id), http)
             response == call.result
         IN [ac |-> clear_complaint_data(ac, session_id),
             response |-> IF "complaint_id" \in DOMAIN response
                          THEN RegisteredMessage(response["complaint_id"])
                          ELSE IssueMessage(DictGet(response, "error", "Unknown error")),
             created |-> <<call.payload>>, result |-> response, written |-> NoData]
    ELSE IF next_field = "name"
    THEN [ac |-> ac, response |-> NamePrompt, created |-> <<>>, result |-> NoData,
          written |-> NoData]
    ELSE [ac |-> ac, response |-> DefaultMessage, created |-> <<>>, result |-> NoData,
          written |-> NoData]

\* lines 285-306: submit when nothing is missing, else the name prompt or the default
Finish(ac, session_id, next_field, http) ==
    IF next_field = None
    THEN LET call == create_complaint(get_complaint_data(ac, session_id), http)
             response == call.result
         IN [ac |-> clear_complaint_data(ac, session_id),
             response |-> IF "complaint_id" \in DOMAIN response
                          THEN RegisteredMessage(response["complaint_id"])
                          ELSE IF "id" \in DOMAIN response
                          THEN RegisteredMessage(response["id"])
                          ELSE IssueMessage(DictGet(response, "error", "Unknown error")),
             created |-> <<call.payload>>, result |-> response, written |-> NoData]
    ELSE IF next_field = "name"
    THEN [ac |-> ac, response |-> NamePrompt, created |-> <<>>, result |-> NoData,
          written |-> NoData]
    ELSE [ac |-> ac, response |-> DefaultMessage, created |-> <<>>, result |-> NoData,
          written |-> NoData]

\* lines 207-306: a turn on an existing draft
ContinueFiling(ac0, session_id, q, extracted_info, http) ==
    LET stored == IF session_id \in DOMAIN ac0 THEN ac0[session_id].current_field ELSE None
        next_field0 == get_next_field(ac0, session_id)
        unset == ~Truthy(stored) /\ next_field0 # None
        ac1 == IF unset THEN [ac0 EXCEPT ![session_id].current_field = next_field0] ELSE ac0
        current_field == IF unset THEN next_field0 ELSE stored
        prompt(ac, message) ==
            [ac |-> ac, response |-> message, created |-> <<>>, result |-> NoData,
             written |-> NoData]
    IN IF ~Truthy(current_field) THEN Finish(ac1, session_id, next_field0, http)
       ELSE LET step == FieldStep(ac1, session_id, q, extracted_info, current_field)
            IN IF step.early # None THEN prompt(step.ac, step.early)
               ELSE IF ~step.input_accepted THEN Finish(step.ac, session_id, next_field0, http)
               ELSE LET next_field == get_next_field(step.ac, session_id)
                        ac2 == IF Truthy(next_field)
                               THEN [step.ac EXCEPT ![session_id].current_field = next_field]
                               ELSE step.ac
                        done == CASE next_field = "phone" -> prompt(ac2, PhonePrompt)
                                  [] next_field = "email" -> prompt(ac2, EmailPrompt)
                                  [] next_field = "details" -> prompt(ac2, DetailsPrompt)
                                  [] OTHER -> Finish(ac2, session_id, next_field, http)
                    IN [done EXCEPT !.written = step.ac]

handle_complaint_filing(ac, session_id, q, http) ==
    LET extracted_info == q.info
    IN IF get_complaint_data(ac, session_id) = NoData
       THEN StartFiling(ac, session_id, extracted_info)
       ELSE ContinueFiling(ac, session_id, q, extracted_info, http)

(***************************************************************************)
(* handle_complaint_retrieval (main.py)                                    *)
(***************************************************************************)
\* the handler that looks the id up even when none was extracted
handle_complaint_retrieval_without_id_test(q, http) ==
    LET complaint_id == IF q.complaint_id = None THEN "None" ELSE q.complaint_id
        complaint == get_complaint(complaint_id, http)
    IN [response |-> IF "error" \in DOMAIN complaint
                     THEN NotFoundMessage(complaint_id)
                     ELSE format_complaint_details(complaint),
        fetched |-> <<complaint_id>>, complaint |-> complaint]

\* the handler that answers a failed lookup with the error it was given
handle_complaint_retrieval_showing_error(q, http) ==
    LET complaint_id == q.complaint_id
    IN IF complaint_id = None
       THEN [response |-> NoIdMessage, fetched |-> <<>>, complaint |-> NoData]
       ELSE LET complaint == get_complaint(complaint_id, http)
            IN [response |-> IF "error" \in DOMAIN complaint
                             THEN complaint["error"]
                             ELSE format_complaint_details(complaint),
                fetched |-> <<complaint_id>>, complaint |-> complaint]

\* it returns the response, the ids it asked get_complaint for and what
\* get_complaint returned
handle_complaint_retrieval(q, http) ==
    LET complaint_id == q.complaint_id
    IN IF complaint_id = None
       THEN [response |-> NoIdMessage, fetched |-> <<>>, complaint |-> NoData]
       ELSE LET complaint == get_complaint(complaint_id, http)
            IN [response |-> IF "error" \in DOMAIN complaint
                             THEN NotFoundMessage(complaint_id)
                             ELSE format_complaint_details(complaint),
                fetched |-> <<complaint_id>>, complaint |-> complaint]

(***************************************************************************)
(* The program: one ConversationState, session id and chat history per     *)
(* browser session (st.session_state), the spaCy model loaded or not at    *)
(* import.  Two history variables record what the properties speak of:     *)
(* the last turn or reset, and how far each session's filing has come.     *)
(***************************************************************************)
VARIABLES
    sessions,            \* the session ids of the open browser sessions
    active_complaints,   \* session -> its ConversationState.active_complaints
    has_history,         \* session -> len(st.session_state['responses']) > 1
    nlp,                 \* intent.py: nlp is not None
    last,                \* history: what the last turn or reset did
    progress,            \* history: session -> the fields its filing started with
                         \* and the turns accepted since
    running              \* session -> the turn that waits in requests.post or
                         \* requests.get for the reply of the complaint API

vars == <<sessions, active_complaints, has_history, nlp, last, progress, running>>

\* the count of accepted turns is kept up to this many
MaxAcceptedTurns == 5

NoTurn ==
    [kind |-> "none", session_id |-> None, query |-> None, route |-> None,
     response |-> None, before |-> EmptyDict, created |-> <<>>, result |-> NoData,
     written |-> NoData, fetched |-> <<>>, complaint |-> NoData, answered |-> FALSE,
     complaint_id |-> None, filing_intent |-> FALSE, retrieval_intent |-> FALSE, intent_mentions_complaint |-> FALSE]

NoProgress == [prefilled |-> {}, accepted |-> 0]

InitFor(open) ==
    /\ sessions = open
    /\ active_complaints = [s \in open |-> EmptyDict]
    /\ has_history = [s \in open |-> FALSE]
    /\ nlp \in BOOLEAN
    /\ last = NoTurn
    /\ progress = [s \in open |-> NoProgress]
    /\ running = [s \in open |-> NoData]

Init == InitFor({"s1"})

\* lines 355-366: query_for_intent is the query, or what the refiner made of it
\* when refinement is enabled and the chat has history
IntentTexts(s, query) ==
    {query} \cup (IF has_history[s] THEN RefinedQueries ELSE {})

\* lines 370-371: a draft exists, the turn continues the filing
Continue(s, q, http) ==
    LET r == handle_complaint_filing(active_complaints[s], s, q, http)
    IN [NoTurn EXCEPT !.kind = "turn", !.session_id = s, !.query = q.text,
                      !.route = "continue", !.response = r.response,
                      !.before = active_complaints[s], !.created = r.created,
                      !.result = r.result, !.written = r.written]
       @@ [ac |-> r.ac]

\* the branches with the filing test first
RouteFilingFirst(q, t, lib) ==
    LET complaint_id == q.complaint_id
        is_retrieval_intent == is_retrieving_complaint(t, nlp, lib)
    IN IF is_filing_complaint(t, nlp, lib) THEN "filing"
       ELSE IF Truthy(complaint_id) /\ (is_retrieval_intent \/ t.mentions_complaint)
       THEN "retrieval_by_id"
       ELSE IF is_retrieval_intent THEN "retrieval"
       ELSE "document_qa"

\* the branches with a first test that asks for the word complaint only
RouteByIdOnMentionOnly(q, t, lib) ==
    LET complaint_id == q.complaint_id
        is_retrieval_intent == is_retrieving_complaint(t, nlp, lib)
    IN IF Truthy(complaint_id) /\ t.mentions_complaint
       THEN "retrieval_by_id"
       ELSE IF is_filing_complaint(t, nlp, lib) THEN "filing"
       ELSE IF is_retrieval_intent THEN "retrieval"
       ELSE "document_qa"

\* lines 374-385: which branch a turn without a draft takes
Route(q, t, lib) ==
    LET complaint_id == q.complaint_id
        is_retrieval_intent == is_retrieving_complaint(t, nlp, lib)
    IN IF Truthy(complaint_id) /\ (is_retrieval_intent \/ t.mentions_complaint)
       THEN "retrieval_by_id"
       ELSE IF is_filing_complaint(t, nlp, lib) THEN "filing"
       ELSE IF is_retrieval_intent THEN "retrieval"
       ELSE "document_qa"

\* lines 372-400: no draft, the turn does what its branch says
Dispatch(s, q, t, lib, http) ==
    LET route == Route(q, t, lib)
        base == [NoTurn EXCEPT !.kind = "turn", !.session_id = s, !.query = q.text,
                               !.route = route, !.before = active_complaints[s],
                               !.complaint_id = q.complaint_id,
                               !.filing_intent = is_filing_complaint(t, nlp, lib),
                               !.retrieval_intent = is_retrieving_complaint(t, nlp, lib),
                               !.intent_mentions_complaint = t.mentions_complaint]
    IN CASE route \in {"retrieval_by_id", "retrieval"} ->
              LET r == handle_complaint_retrieval(q, http)
              IN [base EXCEPT !.response = r.response, !.fetched = r.fetched,
                              !.complaint = r.complaint]
                 @@ [ac |-> active_complaints[s]]
         [] route = "filing" ->
              LET r == handle_complaint_filing(active_complaints[s], s, q, http)
              IN [base EXCEPT !.response = r.response, !.created = r.created,
                              !.result = r.result, !.written = r.written]
                 @@ [ac |-> r.ac]
         [] OTHER ->
              \* find_match and conversation.predict: the language model answers
              [base EXCEPT !.response = "<answer of the language model>", !.answered = TRUE]
              @@ [ac |-> active_complaints[s]]

Record(outcome) == [k \in DOMAIN NoTurn |-> outcome[k]]

\* a filing starts with the fields the first turn filled; a continuation turn
\* counts when its input was accepted (it wrote the field)
Progressed(p, s, outcome) ==
    IF outcome.route = "filing"
    THEN [prefilled |-> {f \in {"name", "phone", "email", "details"} :
                             Truthy(outcome.ac[s][f])},
          accepted |-> 0]
    ELSE IF outcome.route = "continue"
    THEN [p EXCEPT !.accepted = IF outcome.written = NoData \/ @ >= MaxAcceptedTurns
                                THEN @ ELSE @ + 1]
    ELSE NoProgress

\* the end of a turn when all sessions read and write one store entry
FinishedInOneStore(s, outcome) ==
    /\ active_complaints' = [x \in sessions |-> outcome.ac]
    /\ has_history' = [has_history EXCEPT ![s] = TRUE]
    /\ last' = Record(outcome)
    /\ progress' = [progress EXCEPT ![s] = Progressed(@, s, outcome)]
    /\ running' = [running EXCEPT ![s] = NoData]
    /\ UNCHANGED <<sessions, nlp>>

\* lines 402-404 and the frame of a turn
Finished(s, outcome) ==
    /\ active_complaints' = [active_complaints EXCEPT ![s] = outcome.ac]
    /\ has_history' = [has_history EXCEPT ![s] = TRUE]
    /\ last' = Record(outcome)
    /\ progress' = [progress EXCEPT ![s] = Progressed(@, s, outcome)]
    /\ running' = [running EXCEPT ![s] = NoData]
    /\ UNCHANGED <<sessions, nlp>>

\* the replies the complaint API can give to the request a turn makes, if any
CreateRepliesFor(s, q) ==
    IF Continue(s, q, NoReply).created # <<>> THEN CreateReplies ELSE {NoReply}

LookupRepliesFor(q, route) ==
    IF route \in {"retrieval_by_id", "retrieval"} /\ q.complaint_id # None
    THEN LookupReplies ELSE {NoReply}

\* lines 350-371: a submitted, non-empty chat message while a draft exists
ContinueTurn(s) ==
    /\ get_complaint_data(active_complaints[s], s) # NoData
    /\ \E query \in Utterances :
         \E q \in {Fact(query)} :
           \E http \in CreateRepliesFor(s, q) :
             \E outcome \in {Continue(s, q, http)} : Finished(s, outcome)

\* the dispatch without the test for a draft at lines 370-371
DispatchTurnWithDraft(s) ==
    \E query \in Utterances, lib \in LibResults :
      \E query_for_intent \in IntentTexts(s, query) :
        \E q \in {Fact(query)}, t \in {Fact(query_for_intent)} :
          \E http \in LookupRepliesFor(q, Route(q, t, lib)) :
            \E outcome \in {Dispatch(s, q, t, lib, http)} : Finished(s, outcome)

\* lines 350-404: a submitted, non-empty chat message while no draft exists
DispatchTurn(s) ==
    /\ get_complaint_data(active_complaints[s], s) = NoData
    /\ \E query \in Utterances, lib \in LibResults :
         \E query_for_intent \in IntentTexts(s, query) :
           \E q \in {Fact(query)}, t \in {Fact(query_for_intent)} :
             \E http \in LookupRepliesFor(q, Route(q, t, lib)) :
               \E outcome \in {Dispatch(s, q, t, lib, http)} : Finished(s, outcome)

\* lines 437-444: the Reset Conversation button
Reset(s) ==
    /\ active_complaints' =
         [active_complaints EXCEPT ![s] = clear_complaint_data(active_complaints[s], s)]
    /\ has_history' = [has_history EXCEPT ![s] = FALSE]
    /\ last' = [NoTurn EXCEPT !.kind = "reset", !.session_id = s,
                              !.before = active_complaints[s]]
    /\ progress' = [progress EXCEPT ![s] = NoProgress]
    /\ UNCHANGED <<sessions, nlp, running>>

Next ==
    \/ \E s \in sessions : ContinueTurn(s)
    \/ \E s \in sessions : DispatchTurn(s)
    \/ \E s \in sessions : Reset(s)

Spec == Init /\ [][Next]_vars

(***************************************************************************)
(* Two browser sessions, each with its own script run, session state,      *)
(* ConversationState and session id.  A turn that calls the complaint API  *)
(* takes two steps, the request and the reply, and the steps of the two    *)
(* sessions interleave; a turn without a call is one step.                 *)
(***************************************************************************)
SessionUtterances ==
    {"I want to file a complaint", "Jane Doe", "1234567890", "jane@example.com",
     "the printer is broken", "check complaint AB12CD34"}

\* fuzzy scores under the threshold and no keyword match: the patterns decide
QuietLib == LibResult(0, 0, FALSE, FALSE)

SessionCreateReplies == {r \in CreateReplies : r.raises \/ "complaint_id" \in DOMAIN r.json}

SessionLookupReplies == {r \in LookupReplies : r.raises \/ r.status_code = "200"}

\* the spaCy model is loaded: with QuietLib it decides nothing
InitSessions == InitFor({"s1", "s2"}) /\ nlp

\* a script run that takes up a submitted message starts it at once
AlwaysIdle(s) == TRUE

\* lines 350-404 are one synchronous block of the session's script run: the run
\* takes up a submitted message when it is not inside that block
Idle(s) == running[s] = NoData

\* lines 370-400 with the reply http to the request the turn makes, if any
Attempt(s, q, t, lib, http) ==
    IF get_complaint_data(active_complaints[s], s) # NoData
    THEN Continue(s, q, http)
    ELSE Dispatch(s, q, t, lib, http)

Calling(outcome) == outcome.created # <<>> \/ outcome.fetched # <<>>

\* a turn that reaches neither create_complaint nor get_complaint
LocalTurn(s) ==
    /\ Idle(s)
    /\ \E query \in SessionUtterances :
         \E query_for_intent \in IntentTexts(s, query) :
           \E q \in {Fact(query)}, t \in {Fact(query_for_intent)} :
             \E outcome \in {Attempt(s, q, t, QuietLib, NoReply)} :
               /\ ~Calling(outcome)
               /\ Finished(s, outcome)

\* a turn up to requests.post (handler.py:34) or requests.get (handler.py:44):
\* the store holds what the turn has written so far (main.py:266)
SendRequest(s) ==
    /\ Idle(s)
    /\ \E query \in SessionUtterances :
         \E query_for_intent \in IntentTexts(s, query) :
           \E q \in {Fact(query)}, t \in {Fact(query_for_intent)} :
             \E outcome \in {Attempt(s, q, t, QuietLib, NoReply)} :
               /\ Calling(outcome)
               /\ running' = [running EXCEPT
                                ![s] = [outcome EXCEPT !.response = None, !.result = NoData,
                                                       !.complaint = NoData]]
               /\ active_complaints' =
                    [active_complaints EXCEPT
                       ![s] = IF outcome.written # NoData THEN outcome.written ELSE @]
               /\ last' = [NoTurn EXCEPT !.kind = "request", !.session_id = s,
                                         !.query = query, !.before = active_complaints[s]]
               /\ UNCHANGED <<sessions, has_history, nlp, progress>>

\* the rest of the turn sent, from the reply on: main.py:291-298 or main.py:321-324
Resume(s, sent, q, http) ==
    IF sent.created # <<>>
    THEN LET r == Finish(sent.written, s, None, http)
         IN [sent EXCEPT !.response = r.response, !.result = r.result,
                         !.ac = clear_complaint_data(active_complaints[s], s)]
    ELSE LET r == handle_complaint_retrieval(q, http)
         IN [sent EXCEPT !.response = r.response, !.complaint = r.complaint,
                         !.ac = active_complaints[s]]

RepliesFor(sent) ==
    IF sent.created # <<>> THEN SessionCreateReplies ELSE SessionLookupReplies

ReceiveReply(s) ==
    /\ running[s] # NoData
    /\ \E sent \in {running[s]} :
         \E q \in {Fact(sent.query)}, http \in RepliesFor(sent) :
           \E outcome \in {Resume(s, sent, q, http)} : Finished(s, outcome)

\* the Reset Conversation button, taken up by the session's script run
ResetIdle(s) == Idle(s) /\ Reset(s)

NextSessions ==
    \/ \E s \in sessions : LocalTurn(s)
    \/ \E s \in sessions : SendRequest(s)
    \/ \E s \in sessions : ReceiveReply(s)
    \/ \E s \in sessions : ResetIdle(s)

SpecSessions == InitSessions /\ [][NextSessions]_vars

(***************************************************************************)
(* ConversationState on its own: one object, the calls of its methods with *)
(* the session ids and the field values of StoreIds and UpdateInputs, in   *)
(* any order.  last records the call: the store before it and the value    *)
(* returned.                                                               *)
(***************************************************************************)
StoreIds == {"s1", "s2"}

\* the field and value pairs of update_complaint_data: what a turn stores
\* (a name, a phone, an email, details) and the empty string a blank
\* utterance leaves after strip()
UpdateInputs ==
    {<<"name", "Jane Doe">>, <<"phone", "1234567890">>,
     <<"email", "jane@example.com">>, <<"details", "the printer is broken">>,
     <<"details", "">>}

NoCall ==
    [kind |-> "none", session_id |-> None, field |-> None, value |-> None,
     before |-> EmptyDict, returned |-> None]

\* the store of the one ConversationState object
Store == active_complaints["state"]

InitStore ==
    /\ sessions = {"state"}
    /\ active_complaints = [o \in {"state"} |-> EmptyDict]
    /\ has_history = [o \in {"state"} |-> FALSE]
    /\ nlp = FALSE
    /\ last = NoCall
    /\ progress = [o \in {"state"} |-> NoProgress]
    /\ running = [o \in {"state"} |-> NoData]

Called(kind, session_id, field, value, store, returned) ==
    /\ active_complaints' = [active_complaints EXCEPT !["state"] = store]
    /\ last' = [kind |-> kind, session_id |-> session_id, field |-> field, value |-> value,
                before |-> Store, returned |-> returned]
    /\ UNCHANGED <<sessions, has_history, nlp, progress, running>>

\* state.py:17-26
StartComplaintFilingCall(session_id) ==
    \E store \in {start_complaint_filing(Store, session_id)} :
        Called("start_complaint_filing", session_id, None, None, store, store[session_id])

\* state.py:28-34
UpdateComplaintDataCall(session_id) ==
    \E input \in UpdateInputs :
        \E store \in {update_complaint_data(Store, session_id, input[1], input[2])} :
            Called("update_complaint_data", session_id, input[1], input[2], store,
                   store[session_id])

\* state.py:40-52
GetNextFieldCall(session_id) ==
    \E field \in {get_next_field(Store, session_id)} :
        Called("get_next_field", session_id, None, None, Store, field)

\* state.py:54-57
ClearComplaintDataCall(session_id) ==
    \E store \in {clear_complaint_data(Store, session_id)} :
        Called("clear_complaint_data", session_id, None, None, store, None)

\* main.py:271-275: the caller moves current_field to the next missing field
SetCurrentField(session_id) ==
    \E next_field \in {get_next_field(Store, session_id)} :
        /\ Truthy(next_field)
        /\ Called("current_field", session_id, "current_field", next_field,
                  [Store EXCEPT ![session_id].current_field = next_field], None)

NextStore ==
    \/ \E session_id \in StoreIds : StartComplaintFilingCall(session_id)
    \/ \E session_id \in StoreIds : UpdateComplaintDataCall(session_id)
    \/ \E session_id \in StoreIds : GetNextFieldCall(session_id)
    \/ \E session_id \in StoreIds : ClearComplaintDataCall(session_id)
    \/ \E session_id \in StoreIds : SetCurrentField(session_id)

SpecStore == InitStore /\ [][NextStore]_vars

(***************************************************************************)
(* The text functions on their own: an argument is drawn, the function is  *)
(* applied to it, and last records the call and what it returned.          *)
(***************************************************************************)
\* the longest run of digits in a phone argument
MaxDigits == 14

\* the fewest digits in a phone argument
MinDigits == 8

\* n digits: 1234567890 repeated
DigitRun(n) == Join([i \in 1..n |-> SubSeq("1234567890", ((i - 1) % 10) + 1, ((i - 1) % 10) + 1)])

\* sep put into text after its first p characters
Insert(text, sep, p) == SubSeq(text, 1, p) \o sep \o SubSeq(text, p + 1, Len(text))

\* phone arguments: MinDigits to MaxDigits digits, with or without a leading +,
\* with one separator (or a letter) at the start, inside or at the end, and
\* some written the way people write them
PhoneInputs ==
    {plus \o Insert(DigitRun(n), sep, p) :
        plus \in {"", "+"}, n \in MinDigits..MaxDigits,
        sep \in {"", " ", "-", "(", ")", ".", "x"}, p \in {0, 3, MinDigits}}
    \cup {"(555) 123-4567", "555.123.4567", "555 123 4567", "+1 (415) 555-1234",
          "+14155551234", "1+4155551234", "12345", "", "my phone is 1234567890"}

NoApplication ==
    [kind |-> "none", text |-> None, lib |-> <<>>, before |-> EmptyDict, after |-> EmptyDict,
     applied |-> FALSE, returned |-> None]

\* nothing of a session is there; last holds the argument drawn
InitText(arguments) ==
    /\ sessions = {}
    /\ active_complaints = <<>>
    /\ has_history = <<>>
    /\ nlp \in BOOLEAN
    /\ progress = <<>>
    /\ running = <<>>
    /\ last \in arguments

Applied(returned) ==
    /\ last' = [last EXCEPT !.applied = TRUE, !.returned = returned]
    /\ UNCHANGED <<sessions, active_complaints, has_history, nlp, progress, running>>

PhoneArguments ==
    {[NoApplication EXCEPT !.kind = "validate_phone", !.text = phone] : phone \in PhoneInputs}

\* main.py:164-180
ValidatePhoneCall ==
    /\ last.kind = "validate_phone" /\ ~last.applied
    /\ \E returned \in {validate_phone(last.text)} : Applied(returned)

\* utterances typed when the name is asked for
NameInputs ==
    {"", "   ", "J", "Jane", "Jane Doe", "  Jane Doe  ", "Jane\tDoe", "Mary Ann Lee",
     " Mary  Ann  Lee ", "Mary Ann Lee Smith", "the printer is broken", "a b c d e",
     "I want to file a complaint", "jane@example.com", "Jane @home", "@", "Jane Doe2",
     "Agent 007", "1234567890", "my phone is 1234567890", "Dr. Jane Doe", "check complaint"}

\* the drafts that wait for the name: fresh, or with what the first turn filled
NameDrafts ==
    LET fresh == start_complaint_filing(EmptyDict, "s1")
        phone == update_complaint_data(fresh, "s1", "phone", "5551234567")
    IN {fresh, phone, update_complaint_data(fresh, "s1", "email", "jane@example.com"),
        update_complaint_data(phone, "s1", "email", "jane@example.com")}

NameArguments ==
    {[NoApplication EXCEPT !.kind = "name", !.text = query, !.before = ac] :
        query \in NameInputs, ac \in NameDrafts}

\* main.py:182-306 on a draft whose current_field is name
NameTurn ==
    /\ last.kind = "name" /\ ~last.applied
    /\ \E q \in {TextFacts(last.text)} :
         \E r \in {handle_complaint_filing(last.before, "s1", q, NoReply)} :
           /\ last' = [last EXCEPT !.applied = TRUE, !.after = r.ac,
                                   !.returned = r.response]
           /\ UNCHANGED <<sessions, active_complaints, has_history, nlp, progress, running>>

\* what the libraries can return for a text: scores at, under and over the
\* threshold, the keyword-and-verb test met or not
IntentLibs ==
    LibResults \cup {LibResult(100, 0, TRUE, FALSE), LibResult(0, 100, FALSE, TRUE),
                     LibResult(0, 0, TRUE, FALSE), LibResult(0, 0, FALSE, TRUE)}

IntentArguments ==
    {[NoApplication EXCEPT !.kind = kind, !.text = text, !.lib = lib] :
        kind \in {"is_filing_complaint", "is_retrieving_complaint"},
        text \in Texts, lib \in IntentLibs}

\* intent.py:62-106
IsFilingComplaintCall ==
    /\ last.kind = "is_filing_complaint" /\ ~last.applied
    /\ \E returned \in {is_filing_complaint(Fact(last.text), nlp, last.lib)} : Applied(returned)

\* intent.py:108-152
IsRetrievingComplaintCall ==
    /\ last.kind = "is_retrieving_complaint" /\ ~last.applied
    /\ \E returned \in {is_retrieving_complaint(Fact(last.text), nlp, last.lib)} :
         Applied(returned)

\* texts with and without a complaint id: the bare id, each phrase pattern,
\* two patterns at once, a token next to stoplist words, nothing to find
IdInputs ==
    {"AB12CD34", "  AB12CD34  ", "ab12cd", "AB12C", "123456", "complaint", "AB12-CD34",
     "my complaint id is QW12ER", "the complaint id: QW12ER78",
     "status of complaint id = ZX98CV", "complaint number ABC12345",
     "complaint number 123456 or XY1234", "complaint AB12CD34", "complaint id:AB12CD34",
     "complaint details XY1234", "id=MN4567", "I need identification help",
     "check complaint AB12CD34", "please check XY1234 now",
     "status number 123456 AB12CD now", "the status everywhere", "hello world",
     "file a complaint", "where is ticket 12345678", "my ticket is AB_12CD34", ""}

IdArguments ==
    {[NoApplication EXCEPT !.kind = "extract_complaint_id", !.text = text] : text \in IdInputs}

\* handler.py:55-100
ExtractComplaintIdCall ==
    /\ last.kind = "extract_complaint_id" /\ ~last.applied
    /\ \E returned \in {extract_complaint_id(last.text)} : Applied(returned)

InitTexts ==
    InitText(PhoneArguments \cup NameArguments \cup IntentArguments \cup IdArguments)

NextText ==
    \/ ValidatePhoneCall
    \/ NameTurn
    \/ IsFilingComplaintCall
    \/ IsRetrievingComplaintCall
    \/ ExtractComplaintIdCall

SpecText == InitTexts /\ [][NextText]_vars

(***************************************************************************)
(* One session over several drafts: the turns and the reset of Spec, with  *)
(* progress also keeping the draft the session lost last (removed), by a   *)
(* submission or by the reset button, so that a later draft can be         *)
(* compared with it.                                                       *)
(***************************************************************************)
DraftUtterances ==
    {"I want to file a complaint", "5551234567 file a complaint",
     "file a complaint jane@example.com 5551234567", "Jane Doe", "1234567890",
     "jane@example.com", "the printer is broken", "   ",
     "please show my complaint now"}

NoDraftProgress == [prefilled |-> {}, accepted |-> 0, removed |-> NoData]

InitDrafts ==
    /\ sessions = {"s1"}
    /\ active_complaints = [s \in {"s1"} |-> EmptyDict]
    /\ has_history = [s \in {"s1"} |-> FALSE]
    /\ nlp = TRUE
    /\ last = NoTurn
    /\ progress = [s \in {"s1"} |-> NoDraftProgress]
    /\ running = [s \in {"s1"} |-> NoData]

\* the draft a turn removed (as its last write left it), else the one removed before
RemovedBy(s, outcome) ==
    IF get_complaint_data(active_complaints[s], s) # NoData
       /\ get_complaint_data(outcome.ac, s) = NoData
    THEN IF outcome.written # NoData THEN outcome.written[s]
         ELSE get_complaint_data(active_complaints[s], s)
    ELSE progress[s].removed

\* lines 402-404 and the frame of a turn
FinishedDraftTurn(s, outcome) ==
    /\ active_complaints' = [active_complaints EXCEPT ![s] = outcome.ac]
    /\ has_history' = [has_history EXCEPT ![s] = TRUE]
    /\ last' = Record(outcome)
    /\ progress' = [progress EXCEPT ![s] =
                       [prefilled |-> Progressed(@, s, outcome).prefilled,
                        accepted |-> Progressed(@, s, outcome).accepted,
                        removed |-> RemovedBy(s, outcome)]]
    /\ UNCHANGED <<sessions, nlp, running>>

\* lines 350-371: a chat message while a draft exists
DraftContinueTurn(s) ==
    /\ get_complaint_data(active_complaints[s], s) # NoData
    /\ \E query \in DraftUtterances :
         \E q \in {Fact(query)} :
           \E http \in (IF Continue(s, q, NoReply).created # <<>>
                        THEN SessionCreateReplies ELSE {NoReply}) :
             \E outcome \in {Continue(s, q, http)} : FinishedDraftTurn(s, outcome)

\* lines 350-404: a chat message while no draft exists
DraftDispatchTurn(s) ==
    /\ get_complaint_data(active_complaints[s], s) = NoData
    /\ \E query \in DraftUtterances :
         \E query_for_intent \in IntentTexts(s, query) :
           \E q \in {Fact(query)}, t \in {Fact(query_for_intent)} :
             \E outcome \in {Dispatch(s, q, t, QuietLib, NoReply)} :
               FinishedDraftTurn(s, outcome)

\* the reset button without the clear_complaint_data call of line 442
DraftResetKeepingDraft(s) ==
    /\ has_history' = [has_history EXCEPT ![s] = FALSE]
    /\ last' = [NoTurn EXCEPT !.kind = "reset", !.session_id = s,
                              !.before = active_complaints[s]]
    /\ progress' = [progress EXCEPT ![s] = [NoDraftProgress EXCEPT !.removed = progress[s].removed]]
    /\ UNCHANGED <<sessions, active_complaints, nlp, running>>

\* lines 437-444: the Reset Conversation button, in any state
DraftReset(s) ==
    /\ active_complaints' =
         [active_complaints EXCEPT ![s] = clear_complaint_data(active_complaints[s], s)]
    /\ has_history' = [has_history EXCEPT ![s] = FALSE]
    /\ last' = [NoTurn EXCEPT !.kind = "reset", !.session_id = s,
                              !.before = active_complaints[s]]
    /\ progress' = [progress EXCEPT ![s] =
                       [NoDraftProgress EXCEPT !.removed =
                           IF get_complaint_data(active_complaints[s], s) # NoData
                           THEN get_complaint_data(active_complaints[s], s)
                           ELSE progress[s].removed]]
    /\ UNCHANGED <<sessions, nlp, running>>

NextDrafts ==
    \/ \E s \in sessions : DraftContinueTurn(s)
    \/ \E s \in sessions : DraftDispatchTurn(s)
    \/ \E s \in sessions : DraftReset(s)

SpecDrafts == InitDrafts /\ [][NextDrafts]_vars

(***************************************************************************)
(* Properties.  They read the store and the record of the last turn:       *)
(* Before and After are the session's draft at the start and at the end    *)
(* of that turn, Written is the draft as the turn's update_complaint_data  *)
(* calls left it, before the handler recomputed current_field.             *)
(***************************************************************************)
Fields == {"name", "phone", "email", "details"}

Draft(s) == get_complaint_data(active_complaints[s], s)

Turned == last.kind = "turn"

Before ==
    IF last.kind = "none" THEN NoData
    ELSE get_complaint_data(last.before, last.session_id)

After == IF last.kind = "none" THEN NoData ELSE Draft(last.session_id)

Written == IF last.written = NoData THEN NoData ELSE last.written[last.session_id]

Progress == progress[last.session_id]

\* a field holds no value: None, or the empty string get_next_field treats alike
Absent(v) == v = None \/ v = ""

FirstAbsent(d) ==
    IF Absent(d.name) THEN "name"
    ELSE IF Absent(d.phone) THEN "phone"
    ELSE IF Absent(d.email) THEN "email"
    ELSE IF Absent(d.details) THEN "details"
    ELSE None

CurrentFieldIsFirstAbsent(d) == d.current_field = FirstAbsent(d)

\* the turn called create_complaint
Submitting == Turned /\ last.created # <<>>

\* create_complaint reported an error (HTTP error, network error, timeout)
CreateFailed == Submitting /\ "error" \in DOMAIN last.result

\* the utterance of the last turn, as the handlers read it
Heard == Fact(last.query)

----------------------------------------------------------------------------
\* C1 (as stated): whenever a draft exists, current_field is the first field of
\* name, phone, email, details whose value is absent (none if all are present);
\* this holds after start_filing, after update_field, after the first-turn
\* pre-fill and after every step of a turn.
C1_CurrentFieldAfterEveryWrite ==
    /\ \A s \in sessions : Draft(s) # NoData => CurrentFieldIsFirstAbsent(Draft(s))
    /\ Written # NoData => CurrentFieldIsFirstAbsent(Written)

\* C1 (amended): the draft in the store at the end of every turn, and the draft
\* as start_filing and the first-turn pre-fill leave it, has current_field equal
\* to its first absent field; update_field itself leaves current_field on the
\* field it has just written, until the handler recomputes it in the same turn.
C1_CurrentFieldAtTurnEnd ==
    /\ \A s \in sessions : Draft(s) # NoData => CurrentFieldIsFirstAbsent(Draft(s))
    /\ last.route = "filing" => CurrentFieldIsFirstAbsent(Written)
    /\ (last.route = "continue" /\ Written # NoData) =>
           Written.current_field = Before.current_field

\* C1 witness: an accepted phone; the write left current_field on phone, the
\* turn ended with it on email
C1_AcceptedPhoneMovedToEmail ==
    /\ last.route = "continue"
    /\ Written # NoData /\ Written.current_field = "phone" /\ ~Absent(Written.phone)
    /\ After # NoData /\ After.current_field = "email"

----------------------------------------------------------------------------
----------------------------------------------------------------------------
FilingResponses ==
    {NamePrompt, PhonePrompt, EmailPrompt, DetailsPrompt, PhoneError, EmailError}

\* C3: a turn that starts with a draft is a slot-filling continuation and nothing
\* else: no lookup, no document Q&A, no classifier result recorded, no new
\* draft (every value the draft held is kept unless the turn submits it),
\* whatever the utterance contains.
C3_DraftPreemptsRouting ==
    (Turned /\ Before # NoData) =>
        /\ last.route = "continue"
        /\ last.fetched = <<>> /\ ~last.answered
        /\ ~last.filing_intent /\ ~last.retrieval_intent
        /\ last.response \in FilingResponses \/ Submitting
        /\ After = NoData => Submitting
        /\ After # NoData => \A f \in Fields : ~Absent(Before[f]) => After[f] = Before[f]

\* C3 witness: a retrieval phrase with a complaint id, typed while a draft exists
C3_RetrievalPhraseDuringFiling ==
    /\ Turned /\ Before # NoData
    /\ last.query = "check complaint AB12CD34"
    /\ Heard.complaint_id = "AB12CD34" /\ Heard.retrieval_pattern
    /\ After = Before

----------------------------------------------------------------------------
UtteranceMentionsComplaint == Contains(lower(last.query), "complaint")

\* the branch the priority order gives, for one reading of "contains complaint"
RouteBy(mentions) ==
    IF last.complaint_id # None /\ (last.retrieval_intent \/ mentions) THEN "retrieval_by_id"
    ELSE IF last.filing_intent THEN "filing"
    ELSE IF last.retrieval_intent THEN "retrieval"
    ELSE "document_qa"

\* what each branch does, and that the turn took one of the four
BranchEffects ==
    /\ last.route \in {"retrieval_by_id", "retrieval", "filing", "document_qa"}
    /\ last.created = <<>>
    /\ last.route \in {"retrieval_by_id", "retrieval"} =>
           /\ After = NoData /\ ~last.answered
           /\ last.fetched # <<>> \/ last.response = NoIdMessage
    /\ last.route = "filing" =>
           After # NoData /\ last.fetched = <<>> /\ ~last.answered
    /\ last.route = "document_qa" =>
           After = NoData /\ last.fetched = <<>> /\ last.answered

\* C4 (as stated): with no draft the branch is (1) retrieval when an id is
\* extracted and (retrieval intent or the utterance contains "complaint"), even
\* with filing intent, (2) else filing, (3) else retrieval, (4) else document
\* Q&A; exactly one branch is taken.
C4_PriorityByUtterance ==
    (Turned /\ Before = NoData) =>
        (last.route = RouteBy(UtteranceMentionsComplaint) /\ BranchEffects)

\* C4 (amended): the same order, but the test of (1) is made on the text the
\* classifiers read - the refined query when refinement applies, else the
\* utterance - and asks whether it contains "complaint" as a substring,
\* letter case ignored; the id is extracted from the utterance.
C4_PriorityByIntentText ==
    (Turned /\ Before = NoData) =>
        (last.route = RouteBy(last.intent_mentions_complaint) /\ BranchEffects)

\* C4 witness: an id without the word, a refined query with the word and a
\* filing phrase: retrieval wins
C4_RefinedQueryDecides ==
    /\ Turned /\ Before = NoData
    /\ last.complaint_id # None /\ ~UtteranceMentionsComplaint
    /\ last.intent_mentions_complaint /\ last.filing_intent /\ ~last.retrieval_intent
    /\ last.route = "retrieval_by_id" /\ After = NoData

----------------------------------------------------------------------------
\* C5: the turn that starts a filing leaves a draft with current_field = name,
\* name and details absent, and answers with the name prompt, whatever the
\* extractor pre-filled; the utterance is not stored as the name.
C5_StartAsksForName ==
    last.route = "filing" =>
        /\ Before = NoData /\ After # NoData
        /\ After.current_field = "name"
        /\ After.name = None /\ After.details = None
        /\ last.response = NamePrompt
        /\ last.created = <<>>

\* C5 witness: a start whose utterance carried an email and a phone number
C5_StartWithPrefill ==
    /\ last.route = "filing" /\ After # NoData
    /\ After.email = "jane@example.com" /\ After.phone = "5551234567"
    /\ After.current_field = "name"

----------------------------------------------------------------------------
Order(f) ==
    CASE f = "name" -> 1 [] f = "phone" -> 2 [] f = "email" -> 3 [] f = "details" -> 4

\* where a turn on a draft starts and ends: 1..4 collecting, 5 submitted
From == Order(Before.current_field)
To == IF After = NoData THEN 5 ELSE Order(After.current_field)

\* C6 (as stated): the draft goes NO_DRAFT -> name -> phone -> email -> details
\* -> COMPLETE -> NO_DRAFT, no collecting state skipped, each step on an
\* accepted turn; after the start and exactly three accepted turns
\* current_field is details.
C6_NoStateSkipped ==
    Turned =>
        /\ (Before = NoData /\ After # NoData) => After.current_field = "name"
        /\ Before # NoData =>
               /\ To \in {From, From + 1}
               /\ To = From + 1 => Written # NoData
        /\ (last.route = "continue" /\ Progress.accepted = 3) =>
               (After # NoData /\ After.current_field = "details")

\* C6 (amended): the states are visited in that order and a turn moves forward
\* only when its input was accepted; a collecting state is skipped exactly when
\* its field was pre-filled by the utterance that started the filing; so the
\* draft is at details once the accepted turns and the pre-filled fields
\* together number three, and a reset leads to NO_DRAFT from any state.
C6_SkipsOnlyPrefilled ==
    /\ Turned =>
        /\ (Before = NoData /\ After # NoData) => After.current_field = "name"
        /\ Before # NoData =>
               /\ To >= From
               /\ To > From => Written # NoData
               /\ \A f \in Fields : (From < Order(f) /\ Order(f) < To) => f \in Progress.prefilled
               /\ After # NoData => After.current_field \notin Progress.prefilled
               /\ To = 5 => From = 4
        /\ (last.route = "continue" /\ After # NoData
              /\ Progress.accepted + Cardinality(Progress.prefilled) = 3) =>
               After.current_field = "details"
    /\ last.kind = "reset" => After = NoData

\* C6 witness: the phone number came with the starting utterance, the accepted
\* name leads to email
C6_PrefilledPhoneSkipped ==
    /\ Turned /\ Before # NoData /\ Before.current_field = "name"
    /\ After # NoData /\ After.current_field = "email"
    /\ Progress.prefilled = {"phone"} /\ Progress.accepted = 1

----------------------------------------------------------------------------
PhoneInputFails == ~Heard.extracted_phone_valid /\ ~Heard.stripped_phone_valid
EmailInputFails == ~Heard.extracted_email_valid /\ ~Heard.stripped_email_valid

\* C7: a turn whose input fails validation while current_field is phone (email)
\* leaves the whole draft unchanged, calls nothing, and answers with the fixed
\* phone (email) error message.
C7_InvalidInputChangesNothing ==
    (Turned /\ Before # NoData) =>
        /\ (Before.current_field = "phone" /\ PhoneInputFails) =>
               /\ After = Before /\ last.written = NoData
               /\ last.created = <<>> /\ last.fetched = <<>> /\ ~last.answered
               /\ last.response = PhoneError
        /\ (Before.current_field = "email" /\ EmailInputFails) =>
               /\ After = Before /\ last.written = NoData
               /\ last.created = <<>> /\ last.fetched = <<>> /\ ~last.answered
               /\ last.response = EmailError

\* C7 witness: a name typed where the phone number is expected
C7_NameTypedForPhone ==
    /\ Turned /\ Before # NoData /\ Before.current_field = "phone"
    /\ last.query = "Jane Doe" /\ PhoneInputFails
    /\ last.response = PhoneError /\ After.phone = None

----------------------------------------------------------------------------
\* the turn's accepted input left no field absent
Completing == Turned /\ Written # NoData /\ \A f \in Fields : ~Absent(Written[f])

\* C8: on the turn that completes the draft, create_complaint is called exactly
\* once, with the four values the draft holds, and the draft is cleared in the
\* same turn.
C8_CompletingTurnSubmitsOnce ==
    Completing =>
        /\ Before # NoData /\ After = NoData
        /\ Len(last.created) = 1
        /\ last.created[1] = [name |-> Before.name, phone_number |-> Before.phone,
                              email |-> Before.email,
                              complaint_details |-> strip(last.query)]
        /\ Written.name = Before.name /\ Written.phone = Before.phone
        /\ Written.email = Before.email /\ Written.details = strip(last.query)

\* C8 witness: the details turn of a filing, registered under an id
C8_RegisteredComplaint ==
    /\ Completing
    /\ last.query = "the printer is broken"
    /\ last.response = RegisteredMessage("CMP1001")
    /\ After = NoData

----------------------------------------------------------------------------
AtDetails == Turned /\ Before # NoData /\ Before.current_field = "details"

\* C9 (as stated): whenever current_field is details the trimmed utterance is
\* accepted, whatever it is, and the same turn completes the draft and submits;
\* it is never answered with another details prompt.
C9_DetailsAlwaysSubmit ==
    AtDetails =>
        /\ Written # NoData /\ Written.details = strip(last.query)
        /\ Submitting /\ After = NoData
        /\ last.response # DetailsPrompt

\* C9 (amended): the trimmed utterance is stored without validation; when it is
\* not empty the same turn submits and clears the draft; when the utterance is
\* only whitespace the empty string is stored, nothing is submitted, the draft
\* stays at details and the answer is the details prompt again.
C9_NonEmptyDetailsSubmit ==
    AtDetails =>
        /\ Written # NoData /\ Written.details = strip(last.query)
        /\ strip(last.query) # "" => (Submitting /\ After = NoData)
        /\ strip(last.query) = "" =>
               /\ ~Submitting /\ After = Written
               /\ After.current_field = "details"
               /\ last.response = DetailsPrompt

\* C9 witness: a whitespace-only utterance at details
C9_BlankDetailsAskedAgain ==
    /\ AtDetails /\ last.query = "   "
    /\ After # NoData /\ After.details = "" /\ last.response = DetailsPrompt

----------------------------------------------------------------------------
\* C10: a value the extractor produced is written into a draft only after the
\* validator of its field accepted it, the first-turn pre-fill included: no
\* draft holds a phone or an email the validator rejects.
C10_DraftHoldsOnlyValidated ==
    \A s \in sessions :
        Draft(s) # NoData =>
            /\ ~Absent(Draft(s).phone) => validate_phone(Draft(s).phone)
            /\ ~Absent(Draft(s).email) => validate_email(Draft(s).email)

\* C10: the state the claim excludes - a pre-filled email the validator rejects
C10_PrefilledEmailRejectedByValidator ==
    /\ last.route = "filing" /\ After # NoData
    /\ "email" \in DOMAIN Heard.info /\ After.email = Heard.info["email"]
    /\ ~Heard.extracted_email_valid

----------------------------------------------------------------------------
\* the turn went to handle_complaint_retrieval
Retrieving == Turned /\ last.route \in {"retrieval_by_id", "retrieval"}

\* get_complaint was called and reported an error
LookupFailed == Retrieving /\ last.fetched # <<>> /\ "error" \in DOMAIN last.complaint

\* the number of requests the last turn sent to the complaint API
Calls == Len(last.created) + Len(last.fetched)

\* C13: no retry is attempted: a turn sends at most one request to the complaint
\* API (one create or one fetch, never both); a failed request is not repeated
\* within the turn, and no later turn repeats it by itself: a fetch asks for the
\* id of the turn's own utterance, a create sends the draft the turn completed
\* and the draft is gone afterwards, and a reset sends nothing; the failure is
\* reported in the response of the turn.
C13_NoRetry ==
    /\ Calls <= 1
    /\ last.kind = "reset" => Calls = 0
    /\ last.fetched # <<>> => (Retrieving /\ last.fetched = <<Heard.complaint_id>>)
    /\ last.created # <<>> =>
           /\ Turned /\ last.route = "continue" /\ Written # NoData
           /\ last.created = <<CreatePayload(Written)>>
           /\ After = NoData
    /\ CreateFailed => last.response = IssueMessage(last.result["error"])
    /\ LookupFailed => last.response = NotFoundMessage(last.fetched[1])

\* C13 witness: a create that timed out, sent once and reported
C13_FailedCreateSentOnce ==
    /\ CreateFailed /\ Calls = 1
    /\ last.result["error"] = "API error: Read timed out"
    /\ Contains(last.response, "Read timed out")

----------------------------------------------------------------------------
\* C14 (as stated): when get_complaint fails on a retrieval turn (not found,
\* HTTP error, network error or timeout), the response of the turn contains the
\* error text get_complaint returned.
C14_LookupErrorTextInResponse ==
    LookupFailed => Contains(last.response, last.complaint["error"])

\* C14 (amended): when get_complaint fails on a retrieval turn, whatever the
\* failure, the response is the fixed "couldn't find any complaint" message
\* with the extracted id; the error text get_complaint returned is not in it.
C14_LookupFailureAnsweredNotFound ==
    LookupFailed =>
        /\ last.response = NotFoundMessage(Heard.complaint_id)
        /\ ~Contains(last.response, last.complaint["error"])

\* C14 witness: the lookup timed out and the turn answered "couldn't find"
C14_TimeoutAnsweredNotFound ==
    /\ LookupFailed /\ last.complaint["error"] = "API error: Read timed out"
    /\ last.response = NotFoundMessage("AB12CD34")

----------------------------------------------------------------------------
\* the identifier a create_complaint result carries, None when it carries none
ResultId(result) ==
    IF "complaint_id" \in DOMAIN result THEN result["complaint_id"]
    ELSE IF "id" \in DOMAIN result THEN result["id"]
    ELSE None

\* C15: the response of a submitting turn is the confirmation with the
\* identifier create_complaint returned (under complaint_id or id) exactly when
\* the result carries one, and otherwise the failure message with the error the
\* result reports ("Unknown error" when it reports none); one of the two is
\* returned for every result.
C15_ConfirmationOrFailure ==
    Submitting =>
        /\ ResultId(last.result) # None <=> last.response = RegisteredMessage(ResultId(last.result))
        /\ ResultId(last.result) = None <=>
               last.response = IssueMessage(DictGet(last.result, "error", "Unknown error"))
        /\ CreateFailed /\ ResultId(last.result) = None =>
               Contains(last.response, last.result["error"])

\* C15 witness: the identifier came under the key id
C15_ConfirmedById ==
    /\ Submitting /\ last.result = [id |-> "77"]
    /\ last.response = RegisteredMessage("77")

----------------------------------------------------------------------------
\* C16: a retrieval turn whose utterance yields no complaint id answers with the
\* fixed "couldn't identify a complaint ID" message and does not call
\* get_complaint; no retrieval turn creates, changes or removes a draft.
C16_RetrievalWithoutIdCallsNothing ==
    Retrieving =>
        /\ After = Before /\ active_complaints[last.session_id] = last.before
        /\ last.created = <<>> /\ last.written = NoData
        /\ Heard.complaint_id = None =>
               (last.response = NoIdMessage /\ last.fetched = <<>>)

\* C16 witness: retrieval intent without an id in the utterance
C16_RetrievalPhraseWithoutId ==
    /\ Retrieving /\ last.query = "please show my complaint now"
    /\ Heard.complaint_id = None /\ last.response = NoIdMessage /\ last.fetched = <<>>

----------------------------------------------------------------------------
\* the drafts of the ConversationState object before and after the last call
DraftBeforeCall(session_id) == get_complaint_data(last.before, session_id)

DraftAfterCall(session_id) == get_complaint_data(Store, session_id)

\* the call left the drafts of the other session ids as they were
OtherDraftsKept ==
    \A session_id \in StoreIds \ {last.session_id} :
        DraftAfterCall(session_id) = DraftBeforeCall(session_id)

DraftKeys == Fields \cup {"current_field"}

\* C17: start_complaint_filing(session_id) leaves the session with a draft whose
\* four fields are None and whose current_field is name, whatever draft the
\* session held before, and returns that draft; the drafts of other sessions
\* stay as they were.
C17_StartLeavesFreshDraft ==
    last.kind = "start_complaint_filing" =>
        LET draft == DraftAfterCall(last.session_id)
        IN /\ draft # NoData /\ DOMAIN draft = DraftKeys
           /\ \A f \in Fields : draft[f] = None
           /\ draft.current_field = "name"
           /\ last.returned = draft
           /\ OtherDraftsKept

\* C17 witness: the session held a draft with a name, waiting for the phone
C17_StartedOverHeldDraft ==
    /\ last.kind = "start_complaint_filing"
    /\ DraftBeforeCall(last.session_id) # NoData
    /\ DraftBeforeCall(last.session_id).name = "Jane Doe"
    /\ DraftBeforeCall(last.session_id).current_field = "phone"
    /\ DraftAfterCall(last.session_id).name = None

----------------------------------------------------------------------------
\* C18: update_complaint_data(session_id, field, value) sets that field to value
\* and nothing else: without a draft it starts from a fresh one (current_field
\* name), and current_field and every other field are as before; the drafts of
\* other sessions stay as they were.
C18_UpdateSetsOneField ==
    last.kind = "update_complaint_data" =>
        LET held == DraftBeforeCall(last.session_id)
            old == IF held = NoData
                   THEN [k \in DraftKeys |-> IF k = "current_field" THEN "name" ELSE None]
                   ELSE held
            new == DraftAfterCall(last.session_id)
        IN /\ new # NoData /\ DOMAIN new = DOMAIN old
           /\ new[last.field] = last.value
           /\ \A k \in DOMAIN old \ {last.field} : new[k] = old[k]
           /\ last.returned = new
           /\ OtherDraftsKept

\* C18 witness: a phone written while current_field is phone, next to a name
C18_PhoneWrittenCurrentFieldKept ==
    /\ last.kind = "update_complaint_data" /\ last.field = "phone"
    /\ DraftBeforeCall(last.session_id) # NoData
    /\ DraftBeforeCall(last.session_id).current_field = "phone"
    /\ DraftBeforeCall(last.session_id).phone = None
    /\ DraftAfterCall(last.session_id).phone = "1234567890"
    /\ DraftAfterCall(last.session_id).current_field = "phone"
    /\ DraftAfterCall(last.session_id).name = "Jane Doe"

----------------------------------------------------------------------------
\* the first of name, phone, email, details that satisfies missing, else None
FirstField(draft, missing(_)) ==
    IF missing(draft.name) THEN "name"
    ELSE IF missing(draft.phone) THEN "phone"
    ELSE IF missing(draft.email) THEN "email"
    ELSE IF missing(draft.details) THEN "details"
    ELSE None

NeverSet(v) == v = None

\* C19 (as stated): get_next_field(session_id) returns the first field in the
\* order name, phone, email, details that is absent (holds no value, None) in
\* the session's draft, None if all four are present, and None if the session
\* has no draft; it does not modify the store.
C19_NextFieldIsFirstUnset ==
    last.kind = "get_next_field" =>
        /\ Store = last.before
        /\ last.returned = IF DraftBeforeCall(last.session_id) = NoData THEN None
                           ELSE FirstField(DraftBeforeCall(last.session_id), NeverSet)

\* C19 (amended): get_next_field(session_id) returns the first field in the
\* order name, phone, email, details whose value is None or the empty string,
\* None if all four hold a non-empty value, and None if the session has no
\* draft; it does not modify the store.
C19_NextFieldIsFirstFalsy ==
    last.kind = "get_next_field" =>
        /\ Store = last.before
        /\ last.returned = IF DraftBeforeCall(last.session_id) = NoData THEN None
                           ELSE FirstField(DraftBeforeCall(last.session_id), Absent)

\* C19 witness: name, phone and email hold a value and the details are the
\* empty string; details is returned
C19_EmptyDetailsReturned ==
    /\ last.kind = "get_next_field"
    /\ DraftBeforeCall(last.session_id) # NoData
    /\ \A f \in Fields \ {"details"} : ~Absent(DraftBeforeCall(last.session_id)[f])
    /\ DraftBeforeCall(last.session_id).details = ""
    /\ last.returned = "details"

----------------------------------------------------------------------------
\* C20: after clear_complaint_data(session_id) the session has no draft; on a
\* session without a draft (never started, or cleared by the call before) it
\* changes nothing; clearing the result again gives the same store; the drafts
\* of other sessions stay as they were.
C20_ClearIsIdempotent ==
    last.kind = "clear_complaint_data" =>
        /\ DraftAfterCall(last.session_id) = NoData
        /\ last.session_id \notin DOMAIN Store
        /\ DraftBeforeCall(last.session_id) = NoData => Store = last.before
        /\ clear_complaint_data(Store, last.session_id) = Store
        /\ OtherDraftsKept

\* C20 witness: a clear on a session without a draft, next to another session's draft
C20_ClearedWithoutDraft ==
    /\ last.kind = "clear_complaint_data"
    /\ DraftBeforeCall(last.session_id) = NoData
    /\ Store = last.before /\ Store # EmptyDict

----------------------------------------------------------------------------
\* the session whose script run took the step
Acting == last'.session_id

\* what belongs to a session
Own(s) == <<active_complaints[s], has_history[s], progress[s], running[s]>>

\* the last turn, run from its session's store alone with the reply http, ends
\* with the store and the response it ended with here
SameAsAlone(http) ==
    LET s == last.session_id
    IN CASE last.route \in {"continue", "filing"} ->
              LET r == handle_complaint_filing(last.before, s, Heard, http)
              IN /\ r.ac = active_complaints[s]
                 /\ r.response = last.response
                 /\ r.created = last.created
         [] last.route \in {"retrieval_by_id", "retrieval"} ->
              LET r == handle_complaint_retrieval(Heard, http)
              IN /\ active_complaints[s] = last.before
                 /\ r.response = last.response
                 /\ r.fetched = last.fetched
         [] OTHER -> active_complaints[s] = last.before

\* C11: sessions are independent: a step of one session (a turn with its
\* start_complaint_filing, update_complaint_data and clear_complaint_data
\* calls, or a reset) leaves the draft, the history and the turn in flight of
\* every other session unchanged, and however the steps of the two sessions
\* interleave, a turn ends with the draft and the response that the handler
\* gives on that session's own store alone.
C11_SessionsIndependent ==
    /\ [][\A s \in sessions \ {Acting} : Own(s)' = Own(s)]_vars
    /\ [](Turned => \E http \in SessionCreateReplies \cup SessionLookupReplies \cup {NoReply} :
                        SameAsAlone(http))

\* C11 witness: a turn of s2 ended while s1, with a draft at another field,
\* waits for the reply to its create request
C11_TurnBesideWaitingSession ==
    /\ Turned /\ last.session_id = "s2" /\ last.route = "continue"
    /\ After # NoData /\ After.current_field = "email"
    /\ running["s1"] # NoData /\ running["s1"].created # <<>>
    /\ Draft("s1") # NoData /\ Draft("s1").name = "Jane Doe"

----------------------------------------------------------------------------
\* the step ends the turn that session s has in flight: the turn recorded is the
\* one that sent the request, with its utterance, its store and its request
Completes(s) ==
    /\ running'[s] = NoData
    /\ last'.kind = "turn" /\ last'.session_id = s
    /\ last'.query = running[s].query /\ last'.before = running[s].before
    /\ last'.created = running[s].created /\ last'.fetched = running[s].fetched

----------------------------------------------------------------------------
\* the characters of the argument that are no separator, and its digits
Unseparated(text) == SelectSeq(Chars(text), LAMBDA ch : ch \notin {" ", "-", "(", ")", "."})

DigitCount(text) == Cardinality({i \in 1..Len(text) : SubSeq(text, i, i) \in Digit})

DigitsAndSeparators(text) == \A i \in 1..Len(Unseparated(text)) : Unseparated(text)[i] \in Digit

\* a + in front of digits and separators
PlusInFront(text) ==
    /\ Unseparated(text) # <<>> /\ Head(Unseparated(text)) = "+"
    /\ \A i \in 2..Len(Unseparated(text)) : Unseparated(text)[i] \in Digit

PhoneApplied == last.kind = "validate_phone" /\ last.applied

----------------------------------------------------------------------------
NameApplied == last.kind = "name" /\ last.applied

\* 1 to 3 whitespace-separated words, no '@', no digit
OneToThreeWords(text) ==
    /\ WordCount(text) \in 1..3
    /\ "@" \notin CharSet(text)
    /\ CharSet(text) \cap Digit = {}

\* C22: while current_field is name, an utterance is accepted as the name (the
\* trimmed utterance is stored) if and only if it has 1 to 3 words separated by
\* whitespace, no '@' and no digit; an utterance that is not accepted leaves the
\* draft unchanged (name absent, current_field name) and is answered with the
\* name prompt.
C22_NameAcceptedIffShortPlainText ==
    NameApplied =>
        /\ last.before["s1"].current_field = "name" /\ last.before["s1"].name = None
        /\ OneToThreeWords(last.text) =>
               /\ last.after["s1"].name = strip(last.text)
               /\ \A f \in Fields \ {"name"} : last.after["s1"][f] = last.before["s1"][f]
               /\ last.returned # NamePrompt
        /\ ~OneToThreeWords(last.text) =>
               /\ last.after = last.before
               /\ last.returned = NamePrompt

\* C22 witness: four words, not taken as the name
C22_FourWordsAskedAgain ==
    /\ NameApplied /\ last.text = "Mary Ann Lee Smith"
    /\ last.after = last.before /\ last.returned = NamePrompt

----------------------------------------------------------------------------
\* the three signals of a classifier call: the patterns, the fuzzy score against
\* the threshold, the keyword and the verb among the spaCy tokens
Signals ==
    IF last.kind = "is_filing_complaint"
    THEN [pattern |-> Fact(last.text).filing_pattern,
          fuzzy |-> last.lib.filing_score >= 70,
          keyword_and_verb |-> last.lib.filing_keyword_and_verb]
    ELSE [pattern |-> Fact(last.text).retrieval_pattern,
          fuzzy |-> last.lib.retrieval_score >= 70,
          keyword_and_verb |-> last.lib.retrieval_keyword_and_verb]

IntentApplied ==
    last.kind \in {"is_filing_complaint", "is_retrieving_complaint"} /\ last.applied

\* C23: is_filing_complaint and is_retrieving_complaint each return the OR of the
\* pattern signal, the fuzzy signal (best score >= threshold x 100) and the
\* keyword-and-verb signal; without the spaCy model the result is pattern OR
\* fuzzy, and a text that is negative with the model is negative without it.
C23_IntentIsOrOfSignals ==
    IntentApplied =>
        /\ nlp => (last.returned <=>
                       Signals.pattern \/ Signals.fuzzy \/ Signals.keyword_and_verb)
        /\ ~nlp => (last.returned <=> Signals.pattern \/ Signals.fuzzy)
        /\ is_filing_complaint(Fact(last.text), FALSE, last.lib)
               => is_filing_complaint(Fact(last.text), TRUE, last.lib)
        /\ is_retrieving_complaint(Fact(last.text), FALSE, last.lib)
               => is_retrieving_complaint(Fact(last.text), TRUE, last.lib)

\* C23 witness: only the keyword-and-verb signal is positive and the spaCy model
\* is not loaded: the filing classifier says no
C23_KeywordSignalSkipped ==
    /\ IntentApplied /\ last.kind = "is_filing_complaint" /\ ~nlp
    /\ Signals.keyword_and_verb /\ ~Signals.pattern /\ ~Signals.fuzzy
    /\ ~last.returned

----------------------------------------------------------------------------
\* at least 6 characters, all of them letters or digits
SixOrMoreAlphanumeric(x) ==
    Len(x) >= 6 /\ \A i \in 1..Len(x) : SubSeq(x, i, i) \in Alpha \cup Digit

Least(S) == CHOOSE k \in S : \A j \in S : k <= j

\* what the steps give, tried in order: the whole trimmed text, the phrase
\* patterns in their order, the standalone tokens from left to right
StepByStep(text) ==
    LET hits == {k \in 1..Len(id_patterns) : re_search(id_patterns[k], text).ok}
        tokens == FindAllFrom(id_pattern, text, 1)
        likely == {k \in 1..Len(tokens) :
                     /\ SixOrMoreAlphanumeric(tokens[k])
                     /\ HasDigit(tokens[k]) /\ HasLetter(tokens[k])
                     /\ lower(tokens[k]) \notin
                            {"number", "status", "complaint", "details", "everywhere"}}
    IN IF SixOrMoreAlphanumeric(strip(text)) THEN strip(text)
       ELSE IF hits # {}
       THEN group1(text, re_search(id_patterns[Least(hits)], text))
       ELSE IF likely # {} THEN tokens[Least(likely)]
       ELSE None

IdApplied == last.kind = "extract_complaint_id" /\ last.applied

\* C24: extract_complaint_id tries its steps in order and stops at the first hit:
\* the whole trimmed text when it is 6 or more alphanumeric characters, then the
\* five phrase patterns in their order (the capture of the first that matches),
\* then the first standalone token of 6 or more alphanumeric characters that
\* has a digit and a letter and is no stoplist word, else None; a result that
\* is not None is a string of at least 6 alphanumeric characters.
C24_IdStepsInOrder ==
    IdApplied =>
        /\ last.returned = StepByStep(last.text)
        /\ last.returned # None => SixOrMoreAlphanumeric(last.returned)

\* C24 witness: the phrase pattern wins over the token scan, and its capture is
\* the stoplist word
C24_PhraseBeforeToken ==
    /\ IdApplied /\ last.text = "complaint details XY1234"
    /\ last.returned = "details"

----------------------------------------------------------------------------
\* a text that is a value: not None and not the empty string
NonEmpty(v) == v # None /\ v # ""

\* C25: create_complaint is called only on a turn of a session that had a draft,
\* when the draft holds a non-empty name, phone, email and details, and is sent
\* these four values; it is called once, and the same turn removes the draft,
\* so no draft is submitted twice.
C25_CreateOnlyForFullDraft ==
    last.created # <<>> =>
        /\ Turned /\ last.route = "continue"
        /\ Before # NoData /\ Written # NoData
        /\ \A f \in Fields : NonEmpty(Written[f])
        /\ Len(last.created) = 1
        /\ last.created[1] = [name |-> Written.name, phone_number |-> Written.phone,
                              email |-> Written.email, complaint_details |-> Written.details]
        /\ \A k \in DOMAIN last.created[1] : NonEmpty(last.created[1][k])
        /\ After = NoData

\* C25 witness: a draft whose phone and email came with the first utterance is
\* submitted at the details turn, whatever the service answers
C25_FullDraftSubmitted ==
    /\ Submitting /\ Before # NoData
    /\ Progress.prefilled = {"phone", "email"}
    /\ last.created[1].complaint_details = "the printer is broken"
    /\ CreateFailed /\ After = NoData

----------------------------------------------------------------------------
\* the fields of a draft for which the test holds; none for no draft
FieldsWhere(d, Test(_)) == IF d = NoData THEN {} ELSE {f \in Fields : Test(d[f])}

\* a turn on a draft keeps the field values for which Holds is true, and
\* current_field does not move back
KeepsValues(Holds(_)) ==
    (Turned /\ Before # NoData) =>
        /\ Written # NoData => \A f \in Fields : Holds(Before[f]) => Written[f] = Before[f]
        /\ After # NoData =>
               /\ \A f \in Fields : Holds(Before[f]) => After[f] = Before[f]
               /\ Order(After.current_field) >= Order(Before.current_field)

\* C26 (as stated): once a field of a draft holds a value, set by an accepted
\* turn or by the first-turn pre-fill, no later turn changes or removes it
\* until the draft is removed; the number of absent fields never increases and
\* current_field never moves back to an earlier field.
C26_WriteOnceAnyValue ==
    /\ KeepsValues(NotNone)
    /\ (Turned /\ Before # NoData) =>
           Cardinality(FieldsWhere(After, LAMBDA v : v = None))
               <= Cardinality(FieldsWhere(Before, LAMBDA v : v = None))

\* C26 (amended): a non-empty value is write-once in that sense.  The one value
\* that is rewritten is the empty string a whitespace-only utterance stored as
\* details: only details ever holds it, and the next turn stores its own
\* trimmed utterance in its place.  The number of fields that are None or
\* empty never increases and current_field never moves back.
C26_WriteOnceNonEmptyValue ==
    /\ KeepsValues(NonEmpty)
    /\ (Turned /\ Before # NoData) =>
           /\ Cardinality(FieldsWhere(After, Absent)) <= Cardinality(FieldsWhere(Before, Absent))
           /\ \A f \in Fields : Before[f] = "" =>
                  /\ f = "details" /\ Before.current_field = "details"
                  /\ Written # NoData /\ Written.details = strip(last.query)

\* C26 witness: the empty details of a whitespace-only turn are replaced by the
\* next utterance, the name, phone and email stay as they were
C26_BlankDetailsRewritten ==
    /\ Turned /\ Before # NoData /\ Before.details = ""
    /\ Written # NoData /\ Written.details = "the printer is broken"
    /\ Written.name = "Jane Doe" /\ Written.name = Before.name
    /\ Written.phone = Before.phone /\ Written.email = Before.email

----------------------------------------------------------------------------
\* the fields other than the one the turn started at
OtherFields == Fields \ {Before.current_field}

\* C27: a turn that continues a filing writes at most one field of the draft,
\* the one current_field named when the turn started; every other field keeps
\* its value, also when the utterance holds an email address or a phone number
\* the extractor finds; a turn whose input is not accepted writes none.
C27_OnlyCurrentFieldWritten ==
    (Turned /\ last.route = "continue") =>
        /\ Before # NoData /\ Before.current_field \in Fields
        /\ Written # NoData => \A f \in OtherFields : Written[f] = Before[f]
        /\ After # NoData => \A f \in OtherFields : After[f] = Before[f]
        /\ Written = NoData => After = Before

\* C27 witness: the utterance given for the phone number also holds an email
\* address; the phone is stored, the email stays absent and is asked for next
C27_EmailInPhoneTurnIgnored ==
    /\ Turned /\ last.route = "continue" /\ Before.current_field = "phone"
    /\ "email" \in DOMAIN Heard.info /\ Heard.extracted_email_valid
    /\ Before.email = None /\ Written # NoData /\ Written.phone = "5551234567"
    /\ After # NoData /\ After.email = None /\ After.current_field = "email"
    /\ last.response = EmailPrompt

----------------------------------------------------------------------------
\* the last step removed the session's draft
DraftRemoved == Before # NoData /\ After = NoData

\* no draft is removed by a turn that leaves a field without a value: a draft
\* goes only by the submission of a completing turn or by a reset
RemovedOnlyWhenCompleteOrReset ==
    /\ DraftRemoved => (last.kind = "reset" \/ (Completing /\ Submitting))
    /\ (Turned /\ Before # NoData /\ ~Completing) =>
           (After # NoData /\ last.created = <<>>)

\* C28 (as stated): every draft in the store after a turn has an absent field,
\* details being always absent (None); a turn that leaves a field absent never
\* removes the draft, so an incomplete draft survives every turn until it is
\* completed or reset.
C28_DetailsAlwaysNone ==
    /\ \A s \in sessions : Draft(s) # NoData => Draft(s).details = None
    /\ RemovedOnlyWhenCompleteOrReset

\* C28 (amended): every draft in the store after a turn has a field that is
\* None or empty: details is None, or the empty string once a whitespace-only
\* utterance was given for it (name, phone and email are then set and
\* current_field is details); a draft with four non-empty values is never left
\* in the store, and a turn that leaves a field None or empty never removes
\* the draft.
C28_DetailsNoneOrEmpty ==
    /\ \A s \in sessions :
         Draft(s) # NoData =>
             /\ Absent(Draft(s).details)
             /\ Draft(s).details = "" =>
                    /\ Draft(s).current_field = "details"
                    /\ \A f \in {"name", "phone", "email"} : NonEmpty(Draft(s)[f])
    /\ RemovedOnlyWhenCompleteOrReset

\* C28 witness: a draft left in the store with no field None: its details are
\* the empty string, and a second whitespace-only utterance leaves it there
C28_NoFieldNoneDraftKept ==
    /\ Turned /\ Before # NoData /\ Before.details = ""
    /\ last.query = "   " /\ last.created = <<>>
    /\ After # NoData /\ \A f \in Fields : After[f] # None
    /\ After.details = "" /\ After.current_field = "details"

----------------------------------------------------------------------------
\* how many of the four fields of a draft are None or empty; 0 for no draft
AbsentCount(d) == Cardinality(FieldsWhere(d, Absent))

\* the turn gave a whitespace-only utterance for details
BlankDetails == AtDetails /\ strip(last.query) = ""

\* C29 (as stated): from a state with a draft, turns whose utterance is
\* acceptable for the current field lead to the submission within four turns:
\* every accepted turn strictly decreases the number of absent fields, a
\* rejected turn leaves it unchanged, and a draft never has a fifth accepted
\* turn.
C29_EveryAcceptedTurnFillsAField ==
    (Turned /\ Before # NoData) =>
        /\ Written # NoData => AbsentCount(After) < AbsentCount(Before)
        /\ Written = NoData => (After # NoData /\ AbsentCount(After) = AbsentCount(Before))
        /\ Progress.accepted <= 4

\* C29 (amended): a draft has between one and four fields None or empty, and
\* is submitted exactly when a turn leaves none.  Every accepted turn that
\* stores a non-empty value strictly decreases that number, so at most four
\* such turns lead to the submission; a rejected turn leaves it unchanged, and
\* so does the accepted turn of a whitespace-only utterance at details, which
\* stores the empty string and can be repeated any number of times without a
\* submission.
C29_NonBlankAcceptedTurnFillsAField ==
    (Turned /\ Before # NoData) =>
        /\ AbsentCount(Before) \in 1..4
        /\ (Written # NoData /\ ~BlankDetails) => AbsentCount(After) < AbsentCount(Before)
        /\ (Written # NoData /\ BlankDetails) =>
               (After # NoData /\ AbsentCount(After) = AbsentCount(Before))
        /\ Written = NoData => (After # NoData /\ AbsentCount(After) = AbsentCount(Before))
        /\ Submitting <=> After = NoData
        /\ After # NoData => AbsentCount(After) >= 1

\* C29 witness: five turns of a draft were accepted, the last two with
\* whitespace-only details, and nothing was submitted
C29_FiveAcceptedTurnsNoSubmission ==
    /\ Turned /\ Before # NoData /\ BlankDetails /\ Written # NoData
    /\ Progress.prefilled = {} /\ Progress.accepted = 5
    /\ After # NoData /\ last.created = <<>> /\ last.response = DetailsPrompt

----------------------------------------------------------------------------
\* C30: a turn that reaches the retrieval handler through the last branch
\* (retrieval intent, after the complaint-id branch and the filing branch were
\* not taken) has no complaint id in its utterance: it calls get_complaint for
\* nothing and answers with the fixed message that no id was identified;
\* get_complaint is called only on turns of the complaint-id branch.
C30_LastBranchNeverLooksUp ==
    /\ (Turned /\ last.route = "retrieval") =>
           /\ last.retrieval_intent /\ ~last.filing_intent
           /\ last.complaint_id = None /\ Heard.complaint_id = None
           /\ last.fetched = <<>> /\ last.complaint = NoData
           /\ last.response = NoIdMessage
    /\ last.fetched # <<>> =>
           /\ Turned /\ last.route = "retrieval_by_id"
           /\ last.fetched = <<last.complaint_id>>

\* C30 witness: the fuzzy score alone says retrieval for an utterance with no
\* id and no retrieval phrase
C30_FuzzyRetrievalWithoutId ==
    /\ Turned /\ last.route = "retrieval" /\ last.query = "Jane Doe"
    /\ last.retrieval_intent /\ ~Heard.retrieval_pattern
    /\ last.fetched = <<>> /\ last.response = NoIdMessage

----------------------------------------------------------------------------
\* a turn handled by handle_complaint_filing: it starts a draft or continues one
FilingTurn == Turned /\ last.route \in {"filing", "continue"}

\* the test of main.py:217 on the draft the turn found: current_field is unset
\* and a field is missing
CurrentFieldUnset ==
    /\ Turned /\ last.route = "continue"
    /\ ~Truthy(Before.current_field)
    /\ get_next_field(last.before, last.session_id) # None

\* what create_complaint's result is answered with
SubmissionResponses ==
    {RegisteredMessage(id) : id \in {"CMP1001", "77"}}
        \cup {IssueMessage(err) : err \in {"Unknown error", "API error: Read timed out"}}

\* C32: the fallback response is never given: every turn of
\* handle_complaint_filing ends in the name prompt, the prompt of the next
\* field, the phone or email error message, or the result of a submission; and
\* no turn finds a draft whose current_field is unset, so the branch that sets
\* current_field from next_field is never taken.
C32_FallbackUnreachable ==
    /\ \A s \in sessions : Draft(s) # NoData => Draft(s).current_field \in Fields
    /\ ~CurrentFieldUnset
    /\ FilingTurn =>
           /\ last.response # DefaultMessage
           /\ IF Submitting THEN last.response \in SubmissionResponses
              ELSE last.response \in FilingResponses
    /\ last.response # DefaultMessage

\* C32 witness: an utterance rejected as a name falls through to the last lines
\* of the handler, where next_field is name: the name prompt, not the fallback
C32_RejectedNameFallsToNamePrompt ==
    /\ Turned /\ last.route = "continue" /\ Before.current_field = "name"
    /\ last.query = "1234567890" /\ Written = NoData
    /\ After = Before /\ last.response = NamePrompt

----------------------------------------------------------------------------
\* the draft start_complaint_filing and the pre-fill loop make of what the
\* extractor found in the starting utterance
StartedFrom(info) ==
    [f \in Fields \cup {"current_field"} |->
        IF f = "current_field" THEN "name"
        ELSE IF f \in DOMAIN info THEN info[f] ELSE None]

\* the draft the session lost last, by a submission or a reset
Removed == Progress.removed

\* C31: nothing of a removed draft reaches the next one.  A submission and a
\* reset, in whatever state, leave no draft; the turn after it is routed by the
\* classifiers and the complaint id like any turn without a draft; and the
\* draft a filing turn starts holds the values extracted from its own
\* utterance and None elsewhere, whatever the removed draft held.
C31_NoLeakBetweenDrafts ==
    /\ (last.kind = "reset" \/ Submitting) => After = NoData
    /\ (Turned /\ Before = NoData) =>
           /\ last.route = RouteBy(last.intent_mentions_complaint)
           /\ last.route # "continue"
    /\ (Turned /\ last.route = "filing") =>
           /\ Before = NoData
           /\ After = StartedFrom(Heard.info)
           /\ After.name = None /\ After.details = None
    /\ (Turned /\ Before = NoData /\ last.route # "filing") => After = NoData

\* C31 witness: a complaint was submitted with one phone number, and the next
\* draft of the session starts with the number of its own utterance and
\* nothing else
C31_NextDraftAfterSubmission ==
    /\ Turned /\ last.route = "filing"
    /\ Removed # NoData /\ Removed.name = "Jane Doe" /\ Removed.phone = "1234567890"
    /\ Removed.email = "jane@example.com" /\ Removed.details = "the printer is broken"
    /\ After.phone = "5551234567" /\ After.name = None
    /\ After.email = None /\ After.details = None

====
